---- MODULE Spec2Model ----
\* The 6DoF trajectory integrator of crates/ballistics-6dof/src/lib.rs:
\* integrate_6dof with its RK4 stepper, the dynamics, the flow numbers, the
\* default aerodynamic model, the atmosphere and the Vec3 / Quaternion
\* algebra.
\*
\* Numbers.  An f64 is modelled as a binary floating-point number
\* <<m, e>> = m * 2^e with a P-bit mantissa (MLo <= |m| < MHi), the exponent
\* range of an f64, zero, the two infinities and NaN.  Every operation
\* rounds its exact result to nearest, overflows to an infinity and
\* underflows to zero, and follows IEEE 754 on the special values.  There is
\* no signed zero and there are no subnormals.  The elementary functions
\* (sqrt, sin, cos, atan2, acos, ln, exp, powf) are computed from these
\* operations by range reduction and series.  A number of the model carries
\* four to five decimal digits where an f64 carries sixteen.
\*
\* Control.  One call of integrate_6dof is a behaviour: pc goes from "entry"
\* through "loop" to "done" (the samples are returned) or to "panic".  Each
\* action is one pass through the code between two of these points.
\*
\* Beside the locals of the call the state keeps what the code does not
\* store but the properties speak of: the bore angles the initial state was
\* built from, the number of calls of each AeroModel method, and for every
\* RK4 step the coefficients queried at its start, the derivatives k1..k4
\* and the state rk4_step returned.  PairSpec runs a second call of
\* integrate_6dof beside the first, the two taking their steps in any
\* order.
\*
\* Three more parts of the workspace are modelled beside it, each in a
\* variable of its own and with a specification of its own, the other
\* variables at rest:
\*   table   one call of solve_table_at_ranges of crates/ballistics-pointmass
\*           (TableSpec): the zero-angle search, the integration of the
\*           path and the row for each requested range;
\*   lookup  one call of find_seg or i_si of crates/ballistics-models on
\*           the G1 or the G7 table (LookupSpec);
\*   probe   one evaluation of dynamics at a given state, beside the same
\*           evaluation under another gravity, another angular rate and
\*           another Magnus factor (ProbeSpec).
EXTENDS Integers, Sequences, FiniteSets, TLC

\* ------------------------------------------------------------------ f64
\* The mantissa width of a model float (an f64 has 53 bits).
P == 15

\* Powers of two up to the integer width.
Pow2 == [k \in 0 .. 30 |-> 2^k]

\* The bounds of a normalized mantissa magnitude: MLo <= |m| < MHi.
MHi == Pow2[P]

MLo == Pow2[P - 1]

\* The largest exponent of a finite value: m * 2^e < 2^1024.
EMax == 1024 - P

\* The smallest exponent of a non-zero value; below it a result is zero.
EMin == -1022 - P

\* The exponent field of the infinities and of NaN.
ESpecial == EMax + 1

\* The values: pairs <<mantissa, exponent>>.
Float == Int \X Int

Zero == <<0, 0>>

PosInf == <<1, ESpecial>>

NegInf == <<-1, ESpecial>>

NaN == <<0, ESpecial>>

\* The element of a one-element set.  In Only({F(x) : x \in {e}}) the value
\* e is computed once, before F: the let bindings of the source.
Only(S) == CHOOSE r \in S : TRUE

Abs(a) == IF a < 0 THEN -a ELSE a

Sgn(a) == IF a < 0 THEN -1 ELSE IF a > 0 THEN 1 ELSE 0

IsNaN(x) == x[2] = ESpecial /\ x[1] = 0

IsInf(x) == x[2] = ESpecial /\ x[1] # 0

IsSpecial(x) == x[2] = ESpecial

\* w when a has more than w bits, else 0.
HighBits(a, w) == IF a < Pow2[w] THEN 0 ELSE w

BitLen4(a) ==
    IF a < 4 THEN (IF a < 2 THEN a ELSE 2) ELSE IF a < 8 THEN 3 ELSE 4

BitLen8(a) == HighBits(a, 4) + BitLen4(a \div Pow2[HighBits(a, 4)])

BitLen16(a) == HighBits(a, 8) + BitLen8(a \div Pow2[HighBits(a, 8)])

\* The number of bits of a non-negative integer.
BitLen(a) == HighBits(a, 16) + BitLen16(a \div Pow2[HighBits(a, 16)])

\* <<m, e>> unless the exponent is out of range: overflow is an infinity,
\* underflow is zero.
Fin(m, e) ==
    IF e > EMax THEN <<Sgn(m), ESpecial>>
    ELSE IF e < EMin THEN Zero
    ELSE <<m, e>>

\* A rounded mantissa that reached 2^P is renormalized.
Carry(m, e) ==
    Fin(IF Abs(m) = MHi THEN m \div 2 ELSE m,
        IF Abs(m) = MHi THEN e + 1 ELSE e)

\* M * 2^e with M of P + k bits, rounded to P bits (to nearest, ties away).
NormK(M, e, k) ==
    Carry(IF k <= 0 THEN M * Pow2[-k]
          ELSE Sgn(M) * ((Abs(M) + Pow2[k - 1]) \div Pow2[k]),
          e + k)

\* The float nearest to M * 2^e, for an integer M.
Norm[M \in Int, e \in Int] ==
    IF M = 0 THEN Zero ELSE NormK(M, e, BitLen(Abs(M)) - P)

\* The float of an integer.
FromInt(n) == Norm[n, 0]

Neg(x) == <<-x[1], x[2]>>

FAbs(x) == <<Abs(x[1]), x[2]>>

\* x + y when x or y is an infinity or NaN.
AddSpecial(x, y) ==
    IF IsNaN(x) \/ IsNaN(y) THEN NaN
    ELSE IF IsInf(x) /\ IsInf(y) THEN (IF x = y THEN x ELSE NaN)
    ELSE IF IsInf(x) THEN x
    ELSE y

\* The sum of the mantissas of x and y at the smaller of their exponents.
AlignedSum(x, y) ==
    IF x[2] >= y[2] THEN x[1] * Pow2[x[2] - y[2]] + y[1]
    ELSE y[1] * Pow2[y[2] - x[2]] + x[1]

\* f64 addition.
Add[x \in Float, y \in Float] ==
    IF IsSpecial(x) \/ IsSpecial(y) THEN AddSpecial(x, y)
    ELSE IF x[1] = 0 THEN y
    ELSE IF y[1] = 0 THEN x
    ELSE IF x[2] - y[2] > P THEN x
    ELSE IF y[2] - x[2] > P THEN y
    ELSE Norm[AlignedSum(x, y), IF x[2] >= y[2] THEN y[2] ELSE x[2]]

\* f64 subtraction.
Sub[x \in Float, y \in Float] == Add[x, Neg(y)]

\* x * y when x or y is an infinity or NaN.
MulSpecial(x, y) ==
    IF IsNaN(x) \/ IsNaN(y) \/ x[1] = 0 \/ y[1] = 0 THEN NaN
    ELSE <<Sgn(x[1]) * Sgn(y[1]), ESpecial>>

\* The product M * 2^e of two normalized mantissas, of 2P - 1 or 2P bits.
MulNorm(M, e) ==
    NormK(M, e, IF Abs(M) >= Pow2[2 * P - 1] THEN P ELSE P - 1)

\* f64 multiplication.
Mul[x \in Float, y \in Float] ==
    IF IsSpecial(x) \/ IsSpecial(y) THEN MulSpecial(x, y)
    ELSE IF x[1] = 0 \/ y[1] = 0 THEN Zero
    ELSE MulNorm(x[1] * y[1], x[2] + y[2])

\* x / y when x or y is an infinity or NaN, or y is zero.
DivSpecial(x, y) ==
    IF IsNaN(x) \/ IsNaN(y) THEN NaN
    ELSE IF IsInf(x) THEN (IF IsInf(y) THEN NaN
                           ELSE IF y[1] < 0 THEN Neg(x) ELSE x)
    ELSE IF IsInf(y) THEN Zero
    ELSE IF x[1] = 0 THEN NaN
    ELSE <<Sgn(x[1]), ESpecial>>

\* f64 division.  The zero of the model has no sign: x / 0 has the sign
\* of x.
Div[x \in Float, y \in Float] ==
    IF IsSpecial(x) \/ IsSpecial(y) \/ y[1] = 0 THEN DivSpecial(x, y)
    ELSE IF x[1] = 0 THEN Zero
    ELSE Norm[Sgn(x[1]) * Sgn(y[1]) * ((Abs(x[1]) * Pow2[P + 1]) \div Abs(y[1])),
              x[2] - y[2] - (P + 1)]

\* The order of two values neither of which is NaN.
LtOrd(x, y) ==
    IF Sgn(x[1]) # Sgn(y[1]) THEN Sgn(x[1]) < Sgn(y[1])
    ELSE IF x[1] > 0 THEN x[2] < y[2] \/ (x[2] = y[2] /\ x[1] < y[1])
    ELSE IF x[1] < 0 THEN x[2] > y[2] \/ (x[2] = y[2] /\ x[1] < y[1])
    ELSE FALSE

\* x < y: false when either is NaN.
Lt(x, y) == ~IsNaN(x) /\ ~IsNaN(y) /\ LtOrd(x, y)

\* x <= y: false when either is NaN.
Le(x, y) == ~IsNaN(x) /\ ~IsNaN(y) /\ (x = y \/ LtOrd(x, y))

\* f64::max: the other operand when one is NaN.
FMax(x, y) ==
    IF IsNaN(x) THEN y ELSE IF IsNaN(y) THEN x
    ELSE IF LtOrd(x, y) THEN y ELSE x

\* The decimal n / d.
Dec(n, d) == Div[FromInt(n), FromInt(d)]

\* 1.
One == <<16384, -14>>

\* 2.
Two == <<16384, -13>>

\* 1 / 2.
Half == <<16384, -15>>

\* One step of Newton's iteration for the integer square root.
NewtonStep(n, g) == (g + n \div g) \div 2

RECURSIVE ISqrtIter(_, _, _)
\* Newton's iteration from a guess g >= sqrt(n), g2 the next guess.
ISqrtIter(n, g, g2) ==
    IF g2 >= g THEN g ELSE ISqrtIter(n, g2, NewtonStep(n, g2))

\* The integer nearest to sqrt(n), from r = floor(sqrt(n)).
ISqrtRound(n, r) == IF n - r * r > r THEN r + 1 ELSE r

\* The integer nearest to sqrt(n) for 0 < n < 2^31.
ISqrt(n) ==
    ISqrtRound(n, ISqrtIter(n, Pow2[P + 1], NewtonStep(n, Pow2[P + 1])))

\* f64::sqrt: NaN below zero.
Sqrt(x) ==
    IF IsNaN(x) \/ x[1] < 0 THEN NaN
    ELSE IF IsInf(x) \/ x[1] = 0 THEN x
    ELSE Norm[ISqrt(x[1] * Pow2[IF x[2] % 2 = 0 THEN P + 1 ELSE P]),
              (x[2] - (IF x[2] % 2 = 0 THEN P + 1 ELSE P)) \div 2]

\* The integer nearest to a finite x of magnitude below 2^30.
RoundToInt(x) ==
    IF x[1] = 0 THEN 0
    ELSE IF x[2] >= 0 THEN x[1] * Pow2[x[2]]
    ELSE IF -x[2] > P + 1 THEN 0
    ELSE Sgn(x[1]) * ((Abs(x[1]) + Pow2[-x[2] - 1]) \div Pow2[-x[2]])

\* x * 2^k.
Scale2(x, k) == IF x[1] = 0 \/ IsSpecial(x) THEN x ELSE Fin(x[1], x[2] + k)

\* core::f64::consts::PI (31416 / 10000).
PI == <<25736, -13>>

\* PI / 2.
HalfPi == <<25736, -14>>

\* PI / 4.
QuarterPi == <<25736, -15>>

\* 2 PI.
TwoPi == <<25736, -12>>

\* 1 / 3.
Third == <<21845, -16>>

\* 1 / 5.
Fifth == <<26214, -17>>

\* 1 / 7.
Seventh == <<18725, -17>>

\* 1 / 9.
Ninth == <<29127, -18>>

\* r - r^3/3 + r^5/5 - r^7/7 + r^9/9, with r2 = r * r.
AtanPoly(r, r2) ==
    Mul[r, Sub[One, Mul[r2, Sub[Third, Mul[r2, Sub[Fifth,
        Mul[r2, Sub[Seventh, Mul[r2, Ninth]]]]]]]]]

\* atan(r) for 0 <= r <= tan(pi/8).
AtanSeries(r) == AtanPoly(r, Mul[r, r])

\* atan(r) for 0 <= r <= 1, by the half-angle reduction.
AtanU(r) ==
    Scale2(AtanSeries(Div[r, Add[One, Sqrt(Add[One, Mul[r, r]])]]), 1)

\* a, or c - a when the angle is folded.
Folded(fold, c, a) == IF fold THEN Sub[c, a] ELSE a

\* atan(ay / ax) for finite ax, ay > 0.
AtanQ1(ay, ax) ==
    Folded(LtOrd(ax, ay), HalfPi,
           AtanU(IF LtOrd(ax, ay) THEN Div[ax, ay] ELSE Div[ay, ax]))

\* atan2(|y|, x) for y not zero, x and y not NaN.
Atan2Upper(ay, x) ==
    IF IsInf(ay)
    THEN (IF IsInf(x)
          THEN (IF x[1] > 0 THEN QuarterPi ELSE Sub[PI, QuarterPi])
          ELSE HalfPi)
    ELSE IF IsInf(x) THEN (IF x[1] > 0 THEN Zero ELSE PI)
    ELSE IF x[1] = 0 THEN HalfPi
    ELSE Folded(x[1] < 0, PI, AtanQ1(ay, FAbs(x)))

\* f64::atan2(y, x).  The zero of the model has no sign: atan2(0, x) is 0
\* for x >= 0 and pi for x < 0.
Atan2(y, x) ==
    IF IsNaN(y) \/ IsNaN(x) THEN NaN
    ELSE IF y[1] = 0 THEN (IF x[1] < 0 THEN PI ELSE Zero)
    ELSE Folded(y[1] < 0, Zero, Atan2Upper(FAbs(y), x))

\* f64::clamp(lo, hi): NaN stays NaN.
Clamp(x, lo, hi) ==
    IF IsNaN(x) THEN x
    ELSE IF LtOrd(x, lo) THEN lo
    ELSE IF LtOrd(hi, x) THEN hi
    ELSE x

\* f64::acos: NaN outside [-1, 1].
Acos(c) ==
    IF IsNaN(c) \/ LtOrd(One, FAbs(c)) THEN NaN
    ELSE Atan2(Sqrt(Sub[One, Mul[c, c]]), c)

\* 1 / 6.
Inv6 == <<21845, -17>>

\* 1 / 24.
Inv24 == <<21845, -19>>

\* 1 / 120.
Inv120 == <<17476, -21>>

\* 1 / 720.
Inv720 == <<23302, -24>>

\* 1 / 5040.
Inv5040 == <<26631, -27>>

\* x - x^3/6 + x^5/120 - x^7/5040, with x2 = x * x.
SinPoly(x, x2) ==
    Mul[x, Sub[One, Mul[x2, Sub[Inv6, Mul[x2, Sub[Inv120,
        Mul[x2, Inv5040]]]]]]]

\* 1 - x^2/2 + x^4/24 - x^6/720, with x2 = x * x.
CosPoly(x2) ==
    Sub[One, Mul[x2, Sub[Half, Mul[x2, Sub[Inv24, Mul[x2, Inv720]]]]]]

\* sin for |x| <= pi/2.
SinSeries(x) == SinPoly(x, Mul[x, x])

\* cos for |x| <= pi/2.
CosSeries(x) == CosPoly(Mul[x, x])

\* x for |x| <= pi/2, else x reflected about pi/2 or -pi/2, for |x| <= pi.
Reflected(x) ==
    IF LtOrd(HalfPi, x) THEN Sub[PI, x]
    ELSE IF LtOrd(x, Neg(HalfPi)) THEN Sub[Neg(PI), x]
    ELSE x

\* sin for |x| <= pi.
SinReduced(x) == SinSeries(Reflected(x))

\* cos for |x| <= pi.
CosReduced(x) == Folded(LtOrd(HalfPi, FAbs(x)), Zero, CosSeries(Reflected(x)))

\* x less the multiple of 2 pi nearest to it, for a finite x.
ReduceAngle(x) ==
    IF LtOrd(PI, FAbs(x))
    THEN Sub[x, Mul[FromInt(RoundToInt(Div[x, TwoPi])), TwoPi]]
    ELSE x

\* f64::sin: NaN at the infinities.
Sin(x) == IF IsSpecial(x) THEN NaN ELSE SinReduced(ReduceAngle(x))

\* f64::cos: NaN at the infinities.
Cos(x) == IF IsSpecial(x) THEN NaN ELSE CosReduced(ReduceAngle(x))

\* 69315 / 100000.
Ln2 == <<22713, -15>>

\* sqrt(2).
Sqrt2 == <<23170, -14>>

\* 2 u (1 + u^2/3 + u^4/5 + u^6/7), with u2 = u * u: ln((1 + u)/(1 - u)).
LnPoly(u, u2) ==
    Scale2(Mul[u, Add[One, Mul[u2, Add[Third, Mul[u2, Add[Fifth,
        Mul[u2, Seventh]]]]]]], 1)

\* ln(f) for f near 1, with u = (f - 1) / (f + 1).
LnNear(f) == Only({LnPoly(u, Mul[u, u]) : u \in {Div[Sub[f, One], Add[f, One]]}})

\* k ln 2 + ln(f) for f near 1.
LnSum(f, k) == Add[Mul[FromInt(k), Ln2], LnNear(f)]

\* ln(f * 2^k) for 1/2 <= f < 1.
LnParts(f, k) ==
    LnSum(IF LtOrd(Mul[f, Sqrt2], One) THEN Scale2(f, 1) ELSE f,
          IF LtOrd(Mul[f, Sqrt2], One) THEN k - 1 ELSE k)

\* f64::ln: NaN below zero, -inf at zero.
Ln(x) ==
    IF IsNaN(x) \/ x[1] < 0 THEN NaN
    ELSE IF x[1] = 0 THEN NegInf
    ELSE IF IsInf(x) THEN x
    ELSE LnParts(<<x[1], -P>>, x[2] + P)

\* 1 + r + r^2/2 + r^3/6 + r^4/24 + r^5/120.
ExpPoly(r) ==
    Add[One, Mul[r, Add[One, Mul[r, Add[Half, Mul[r, Add[Inv6,
        Mul[r, Add[Inv24, Mul[r, Inv120]]]]]]]]]]

\* exp(y) = 2^k * exp(y - k ln 2).
ExpParts(y, k) == Scale2(ExpPoly(Sub[y, Mul[FromInt(k), Ln2]]), k)

\* The arguments beyond which exp overflows or underflows (710).
ExpHi == <<22720, -5>>

\* -746.
ExpLo == <<-23872, -5>>

\* f64::exp.
Exp(y) ==
    IF IsNaN(y) THEN NaN
    ELSE IF LtOrd(ExpHi, y) THEN PosInf
    ELSE IF LtOrd(y, ExpLo) THEN Zero
    ELSE ExpParts(y, RoundToInt(Div[y, Ln2]))

\* f64::powf(x, y) for a finite y that is not an integer.
Powf(x, y) ==
    IF IsNaN(x) \/ IsNaN(y) \/ x[1] < 0 THEN NaN
    ELSE IF x = One THEN One
    ELSE IF x[1] = 0 THEN (IF y[1] > 0 THEN Zero ELSE PosInf)
    ELSE IF IsInf(x) THEN (IF y[1] > 0 THEN PosInf ELSE Zero)
    ELSE Exp(Mul[y, Ln(x)])

\* ------------------------------------------------------------------ Vec3
Vec3(a, b, c) == [x |-> a, y |-> b, z |-> c]

Vec3_zero == Vec3(Zero, Zero, Zero)

Vec3_scale(v, k) == Vec3(Mul[v.x, k], Mul[v.y, k], Mul[v.z, k])

Vec3_dot(a, b) == Add[Add[Mul[a.x, b.x], Mul[a.y, b.y]], Mul[a.z, b.z]]

Vec3_cross(a, b) ==
    Vec3(Sub[Mul[a.y, b.z], Mul[a.z, b.y]],
         Sub[Mul[a.z, b.x], Mul[a.x, b.z]],
         Sub[Mul[a.x, b.y], Mul[a.y, b.x]])

Vec3_norm(v) == Sqrt(Vec3_dot(v, v))

\* 1e-6.
Micro == <<17180, -34>>

\* 1e-9.
Nano == <<17592, -44>>

\* The threshold 1e-12 of normalize_or_zero.
EpsVec == <<18015, -54>>

\* normalize_or_zero after let n = self.norm().
Vec3_normalize_n(v, n) ==
    IF Lt(n, EpsVec) THEN Vec3_zero ELSE Vec3_scale(v, Div[One, n])

Vec3_normalize_or_zero(v) == Vec3_normalize_n(v, Vec3_norm(v))

Vec3_add(a, b) == Vec3(Add[a.x, b.x], Add[a.y, b.y], Add[a.z, b.z])

Vec3_sub(a, b) == Vec3(Sub[a.x, b.x], Sub[a.y, b.y], Sub[a.z, b.z])

\* ------------------------------------------------------------ Quaternion
Quaternion(a, b, c, d) == [w |-> a, x |-> b, y |-> c, z |-> d]

Quaternion_identity == Quaternion(One, Zero, Zero, Zero)

\* The norm computed by Quaternion::normalize.
Quaternion_norm(q) ==
    Sqrt(Add[Add[Add[Mul[q.w, q.w], Mul[q.x, q.x]], Mul[q.y, q.y]],
             Mul[q.z, q.z]])

\* The threshold 1e-15 of Quaternion::normalize.
EpsQuat == <<18447, -64>>

\* normalize() without the guard n < 1e-15: always q / n.
Quaternion_normalize_n_unguarded(q, n) ==
    Quaternion(Div[q.w, n], Div[q.x, n], Div[q.y, n], Div[q.z, n])

\* Quaternion::normalize with the division left out.
Quaternion_normalize_n_unscaled(q, n) ==
    IF Lt(n, EpsQuat) THEN Quaternion_identity ELSE q

\* Quaternion::normalize after let n = the norm.
Quaternion_normalize_n(q, n) ==
    IF Lt(n, EpsQuat) THEN Quaternion_identity
    ELSE Quaternion(Div[q.w, n], Div[q.x, n], Div[q.y, n], Div[q.z, n])

Quaternion_normalize(q) == Quaternion_normalize_n(q, Quaternion_norm(q))

Quaternion_mul(a, b) ==
    Quaternion(
        Sub[Sub[Sub[Mul[a.w, b.w], Mul[a.x, b.x]], Mul[a.y, b.y]],
            Mul[a.z, b.z]],
        Sub[Add[Add[Mul[a.w, b.x], Mul[a.x, b.w]], Mul[a.y, b.z]],
            Mul[a.z, b.y]],
        Add[Add[Sub[Mul[a.w, b.y], Mul[a.x, b.z]], Mul[a.y, b.w]],
            Mul[a.z, b.x]],
        Add[Sub[Add[Mul[a.w, b.z], Mul[a.x, b.y]], Mul[a.y, b.x]],
            Mul[a.z, b.w]])

Quaternion_conj(q) == Quaternion(q.w, Neg(q.x), Neg(q.y), Neg(q.z))

\* The vector part of a quaternion.
Quaternion_vec(r) == Vec3(r.x, r.y, r.z)

\* v' = q * (0,v) * q*
Quaternion_rotate_vec(q, v) ==
    Quaternion_vec(
        Quaternion_mul(Quaternion_mul(q, Quaternion(Zero, v.x, v.y, v.z)),
                       Quaternion_conj(q)))

Quaternion_scale(q, k) ==
    Quaternion(Mul[q.w, k], Mul[q.x, k], Mul[q.y, k], Mul[q.z, k])

Quaternion_add(a, b) ==
    Quaternion(Add[a.w, b.w], Add[a.x, b.x], Add[a.y, b.y], Add[a.z, b.z])

\* q_from_axis_angle after (s, c) = ha.sin_cos() and n = normalize_or_zero.
q_from_sin_cos(s, c, n) ==
    Quaternion(c, Mul[n.x, s], Mul[n.y, s], Mul[n.z, s])

q_from_axis_angle(axis, angle) ==
    q_from_sin_cos(Sin(Mul[Half, angle]), Cos(Mul[Half, angle]),
                   Vec3_normalize_or_zero(axis))

\* ------------------------------------------------------------ Atmosphere
\* g = 9.80665 (980665 / 100000).
AtmosG == <<20084, -11>>

\* r = 287.05 (28705 / 100).
AtmosR == <<18371, -6>>

\* gamma = 1.4 (14 / 10).
AtmosGamma == <<22938, -14>>

\* The lapse rate l = -0.0065 K/m (-65 / 10000).
Lapse == <<-27263, -22>>

\* 0 C in kelvin: 273.15 (27315 / 100).
KelvinOffset == <<17482, -6>>

\* 100 Pa.
HectoPascal == <<25600, -8>>

\* The floor of the temperature: 150 K.
MinTempK == <<19200, -7>>

\* The pressure at altitude z_m, temperature t_k.
pressure_at(t0_k, p0_pa, z_m, t_k) ==
    IF Lt(Nano, FAbs(Lapse))
    THEN Mul[p0_pa, Powf(Div[t_k, t0_k], Div[Neg(AtmosG), Mul[Lapse, AtmosR]])]
    ELSE Mul[p0_pa, Exp(Div[Mul[Neg(AtmosG), z_m], Mul[AtmosR, t0_k]])]

\* (rho, a) from the pressure and temperature at altitude.
density_and_sound(p_pa, t_k) ==
    <<Div[p_pa, Mul[AtmosR, t_k]], Sqrt(Mul[Mul[AtmosGamma, AtmosR], t_k])>>

\* density_and_speed_of_sound after t0_k, p0_pa and t_k are bound.
atmosphere_at(t0_k, p0_pa, z_m, t_k) ==
    Only({density_and_sound(p_pa, t_k) :
            p_pa \in {pressure_at(t0_k, p0_pa, z_m, t_k)}})

\* density_and_speed_of_sound after the baseline t0_k, p0_pa is bound.
atmosphere_from_baseline(t0_k, p0_pa, z_m) ==
    Only({atmosphere_at(t0_k, p0_pa, z_m, t_k) :
            t_k \in {FMax(Add[t0_k, Mul[Lapse, z_m]], MinTempK)}})

\* (density, speed_of_sound) at altitude z_m.
density_and_speed_of_sound(env, z_m) ==
    atmosphere_from_baseline(Add[env.temperature_c, KelvinOffset],
                             Mul[env.pressure_hpa, HectoPascal], z_m)

\* ----------------------------------------------------- DefaultAeroApprox
\* 8 / 10.
MachSubsonic == <<26214, -15>>

\* 12 / 10.
MachTransonic == <<19661, -14>>

\* 2.
MachSupersonic == <<16384, -13>>

\* 25 / 100.
CdLow == <<16384, -16>>

\* 40 / 100.
CdTransonic == <<26214, -16>>

\* 30 / 100.
CdSupersonic == <<19661, -16>>

\* A drag curve without the transonic band: 0.25 up to Mach 1.2.
c_d_no_transonic(mach, alpha, beta) ==
    IF Lt(mach, MachTransonic) THEN CdLow
    ELSE IF Lt(mach, MachSupersonic) THEN CdSupersonic
    ELSE CdLow

\* The drag coefficient of the default model: four bands of Mach.
c_d(mach, alpha, beta) ==
    IF Lt(mach, MachSubsonic) THEN CdLow
    ELSE IF Lt(mach, MachTransonic) THEN CdTransonic
    ELSE IF Lt(mach, MachSupersonic) THEN CdSupersonic
    ELSE CdLow

\* 28 / 10.
ClAlpha == <<22938, -13>>

\* 28 / 10.
CyBeta == <<22938, -13>>

\* -9 / 10.
CmAlpha == <<-29491, -15>>

\* -20.
CmQ == <<-20480, -10>>

\* -2 / 100.
ClP == <<-20972, -20>>

\* 1 / 10.
CMagnus == <<26214, -18>>

c_l_alpha(mach) == ClAlpha

c_y_beta(mach) == CyBeta

c_m_alpha(mach) == CmAlpha

c_m_q(mach) == CmQ

c_l_p(mach) == ClP

c_magnus(mach) == CMagnus

\* ------------------------------------------------------- State, dynamics
State(r, v, q, w) == [r |-> r, v |-> v, q |-> q, w |-> w]

\* The floor 1e-6 of the body speed and of the speed of sound.
EpsSpeed == Micro

\* The floor 1e-9 of the principal inertias.
EpsInertia == Nano

\* The inertial velocity in the body frame.
body_velocity(s) == Quaternion_rotate_vec(Quaternion_conj(s.q), s.v)

\* The body speed, floored.
body_speed(v_b) ==
    FMax(Sqrt(Add[Add[Mul[v_b.x, v_b.x], Mul[v_b.y, v_b.y]],
                  Mul[v_b.z, v_b.z]]),
         EpsSpeed)

\* flow_numbers after v_b, speed and (rho, a) are bound.
flow_of(v_b, speed, ra) ==
    [mach  |-> Div[speed, FMax(ra[2], EpsSpeed)],
     qbar  |-> Mul[Mul[Mul[Half, ra[1]], speed], speed],
     rho   |-> ra[1],
     alpha |-> Atan2(Neg(v_b.z), v_b.x),
     beta  |-> Atan2(v_b.y, Sqrt(Add[Mul[v_b.x, v_b.x], Mul[v_b.z, v_b.z]]))]

\* flow_numbers after v_b is bound.
flow_of_body(v_b, env, z_m) ==
    Only({flow_of(v_b, speed, ra) :
            speed \in {body_speed(v_b)},
            ra \in {density_and_speed_of_sound(env, z_m)}})

\* (mach, qbar, rho, alpha, beta) at state s.
flow_numbers(s, env) ==
    Only({flow_of_body(v_b, env, s.r.z) : v_b \in {body_velocity(s)}})

\* The Magnus side force: y and z of c_mag * (omega x v_body), no x.
magnus_force(c_mag, wxv) ==
    Vec3(Zero, Mul[c_mag, wxv.y], Mul[Neg(c_mag), wxv.z])

\* f_body with the Magnus side force added along the bore axis as well.
body_force_sum_axial(mqs, qs, fl, f_magnus) ==
    Vec3(Add[Mul[mqs, c_d(fl.mach, fl.alpha, fl.beta)], f_magnus.y],
         Add[Mul[Mul[qs, c_y_beta(fl.mach)], fl.beta], f_magnus.y],
         Add[Mul[Mul[mqs, c_l_alpha(fl.mach)], fl.alpha], f_magnus.z])

\* f_body from mqs = -qbar * sref, qs = qbar * sref, the flow numbers and
\* the Magnus force.
body_force_sum(mqs, qs, fl, f_magnus) ==
    Vec3(Mul[mqs, c_d(fl.mach, fl.alpha, fl.beta)],
         Add[Mul[Mul[qs, c_y_beta(fl.mach)], fl.beta], f_magnus.y],
         Add[Mul[Mul[mqs, c_l_alpha(fl.mach)], fl.alpha], f_magnus.z])

\* The forces in the body frame.
body_force(s, proj, fl, v_b) ==
    body_force_sum(Mul[Neg(fl.qbar), proj.area], Mul[fl.qbar, proj.area], fl,
                   magnus_force(c_magnus(fl.mach), Vec3_cross(s.w, v_b)))

\* f_total with gravity added on every axis.
total_force_every_axis(f_inertial, g) ==
    Vec3(Add[f_inertial.x, g.g], Add[f_inertial.y, g.g],
         Add[f_inertial.z, g.g])

\* f_total: the inertial force plus gravity on z.
total_force(f_inertial, g) ==
    Vec3(f_inertial.x, f_inertial.y, Add[f_inertial.z, g.g])

\* a_inertial = f_total / mass.
acceleration_of(f_total, mass) ==
    Vec3(Div[f_total.x, mass], Div[f_total.y, mass], Div[f_total.z, mass])

\* The linear acceleration: force to inertial, add gravity, divide by mass.
linear_acceleration(s, proj, g, f_body) ==
    acceleration_of(total_force(Quaternion_rotate_vec(s.q, f_body), g),
                    proj.mass)

\* m_body from qsd = qbar * sref * dref and rate_nd = 0.5 * dref / v_mag.
body_moment(qsd, fl, w, rate_nd) ==
    Vec3(Mul[qsd, Mul[Mul[c_l_p(fl.mach), w.x], rate_nd]],
         Add[Mul[qsd, Mul[c_m_alpha(fl.mach), fl.alpha]],
             Mul[qsd, Mul[Mul[c_m_q(fl.mach), w.y], rate_nd]]],
         Add[Mul[qsd, Mul[c_m_alpha(fl.mach), fl.beta]],
             Mul[qsd, Mul[Mul[c_m_q(fl.mach), w.z], rate_nd]]])

\* wdot = I^-1 (M - omega x (I omega)), component by component.
euler_wdot(m_body, wxiw, ixx, iyy, izz) ==
    Vec3(Div[Sub[m_body.x, wxiw.x], ixx], Div[Sub[m_body.y, wxiw.y], iyy],
         Div[Sub[m_body.z, wxiw.z], izz])

\* The rotational dynamics after the floored inertias are bound.
rigid_body_wdot(w, m_body, ixx, iyy, izz) ==
    euler_wdot(m_body,
               Vec3_cross(w, Vec3(Mul[ixx, w.x], Mul[iyy, w.y], Mul[izz, w.z])),
               ixx, iyy, izz)

\* The angular acceleration in the body frame.
angular_acceleration(s, proj, fl, v_mag) ==
    rigid_body_wdot(
        s.w,
        body_moment(Mul[Mul[fl.qbar, proj.area], proj.diameter], fl, s.w,
                    Div[Mul[Half, proj.diameter], v_mag]),
        FMax(proj.ixx, EpsInertia), FMax(proj.iyy, EpsInertia),
        FMax(proj.izz, EpsInertia))

\* qdot = 0.5 * q (x) (0, p, q, r).
quaternion_rate(s) ==
    Quaternion_scale(
        Quaternion_mul(s.q, Quaternion(Zero, s.w.x, s.w.y, s.w.z)), Half)

\* dynamics after the flow numbers and v_b are bound.
dynamics_of_flow(s, proj, g, fl, v_b) ==
    Only({State(s.v, linear_acceleration(s, proj, g, f_body),
                quaternion_rate(s), angular_acceleration(s, proj, fl, v_mag)) :
            f_body \in {body_force(s, proj, fl, v_b)},
            v_mag \in {body_speed(v_b)}})

\* The derivative of state s: (velocity, acceleration, quaternion rate,
\* angular acceleration) in the shape of a State.
dynamics(s, proj, g, env) ==
    Only({dynamics_of_flow(s, proj, g, fl, v_b) :
            fl \in {flow_numbers(s, env)}, v_b \in {body_velocity(s)}})

\* ------------------------------------------------------------- rk4_step
\* s + k * h, field by field (the stage states s2, s3, s4).
Stage(s, k, h) ==
    State(Vec3_add(s.r, Vec3_scale(k.r, h)),
          Vec3_add(s.v, Vec3_scale(k.v, h)),
          Quaternion_add(s.q, Quaternion_scale(k.q, h)),
          Vec3_add(s.w, Vec3_scale(k.w, h)))

\* k1 + (k2 + k3) * 2 + k4 of a Vec3 field.
Blend3(k1, k2, k3, k4) ==
    Vec3_add(Vec3_add(k1, Vec3_scale(Vec3_add(k2, k3), Two)), k4)

\* k1 + (k2 + k3) * 2 + k4 of the quaternion field.
Blend4(k1, k2, k3, k4) ==
    Quaternion_add(
        Quaternion_add(k1, Quaternion_scale(Quaternion_add(k2, k3), Two)),
        k4)

\* The state rk4_step would return without normalize(): the raw blend.
rk4_combine_raw(s, h6, k1, k2, k3, k4) ==
    Only({State(Vec3_add(s.r, Vec3_scale(br, h6)),
                Vec3_add(s.v, Vec3_scale(bv, h6)),
                Quaternion_add(s.q, Quaternion_scale(bq, h6)),
                Vec3_add(s.w, Vec3_scale(bw, h6))) :
            br \in {Blend3(k1.r, k2.r, k3.r, k4.r)},
            bv \in {Blend3(k1.v, k2.v, k3.v, k4.v)},
            bq \in {Blend4(k1.q, k2.q, k3.q, k4.q)},
            bw \in {Blend3(k1.w, k2.w, k3.w, k4.w)}})

\* The state rk4_step returns, h6 = dt / 6.
rk4_combine(s, h6, k1, k2, k3, k4) ==
    Only({State(Vec3_add(s.r, Vec3_scale(br, h6)),
                Vec3_add(s.v, Vec3_scale(bv, h6)),
                Quaternion_normalize(
                    Quaternion_add(s.q, Quaternion_scale(bq, h6))),
                Vec3_add(s.w, Vec3_scale(bw, h6))) :
            br \in {Blend3(k1.r, k2.r, k3.r, k4.r)},
            bv \in {Blend3(k1.v, k2.v, k3.v, k4.v)},
            bq \in {Blend4(k1.q, k2.q, k3.q, k4.q)},
            bw \in {Blend3(k1.w, k2.w, k3.w, k4.w)}})

\* The state the next stage derivative is taken at: s for k1, s + k * dt/2
\* for k2 and k3, s + k3 * dt for k4; ks are the stages taken so far.
stage_state(s, dt, ks) ==
    IF ks = <<>> THEN s
    ELSE Stage(s, ks[Len(ks)], IF Len(ks) = 3 THEN dt ELSE Mul[dt, Half])

\* The four stage derivatives <<k1, k2, k3, k4>>, each from the one before.
RECURSIVE rk4_stages(_, _, _, _, _, _)
rk4_stages(s, dt, proj, g, env, ks) ==
    IF Len(ks) = 4 THEN ks
    ELSE Only({rk4_stages(s, dt, proj, g, env, Append(ks, k)) :
                 k \in {dynamics(s_k, proj, g, env) :
                          s_k \in {stage_state(s, dt, ks)}}})

\* rk4_step after the four stages are bound.
rk4_of_stages(s, dt, ks) ==
    rk4_combine(s, Div[dt, FromInt(6)], ks[1], ks[2], ks[3], ks[4])

\* One classical RK4 step of the dynamics from s over dt: the derivatives
\* k1..k4 and the state returned.
rk4_traced(s, dt, proj, g, env) ==
    Only({[ks |-> ks, ret |-> rk4_of_stages(s, dt, ks)] :
            ks \in {rk4_stages(s, dt, proj, g, env, <<>>)}})

\* rk4_step(s, dt, f).
rk4_step(s, dt, proj, g, env) == rk4_traced(s, dt, proj, g, env).ret

\* ---------------------------------------------------------- constructors
\* projectile_cylindrical after rad2 = (0.5 d)^2 is bound.
projectile_of(mass_kg, diameter_m, length_m, spin_rad_s, rad2, iyy) ==
    [mass |-> mass_kg, diameter |-> diameter_m,
     area |-> Mul[Mul[Mul[PI, Dec(25, 100)], diameter_m], diameter_m],
     ixx |-> Mul[Mul[Half, mass_kg], rad2],
     iyy |-> iyy, izz |-> iyy, spin_rad_s |-> spin_rad_s]

\* The pitch/yaw inertia of the slender body.
slender_iyy(mass_kg, length_m, rad2) ==
    Mul[Mul[Div[One, FromInt(12)], mass_kg],
        Add[Mul[FromInt(3), rad2], Mul[length_m, length_m]]]

\* A projectile with derived area and inertia approximations.
projectile_cylindrical(mass_kg, diameter_m, length_m, spin_rad_s) ==
    projectile_of(mass_kg, diameter_m, length_m, spin_rad_s,
        Mul[Mul[Half, diameter_m], Mul[Half, diameter_m]],
        slender_iyy(mass_kg, length_m,
            Mul[Mul[Half, diameter_m], Mul[Half, diameter_m]]))

\* The angle below which initial_state_from_muzzle takes the identity.
EpsAngle == Nano

\* The orientation taking x_body onto forward by axis and angle.
muzzle_orientation(axis, angle) ==
    IF Lt(FAbs(angle), EpsAngle) THEN Quaternion_identity
    ELSE q_from_axis_angle(axis, angle)

\* initial_state_from_muzzle after forward and x_body are bound.
state_from_forward(muzzle_pos_m, muzzle_speed_ms, spin_rad_s, forward, x_body) ==
    State(muzzle_pos_m, Vec3_scale(forward, muzzle_speed_ms),
          muzzle_orientation(
              Vec3_normalize_or_zero(Vec3_cross(x_body, forward)),
              Acos(Clamp(Vec3_dot(x_body, forward), Neg(One), One))),
          Vec3(spin_rad_s, Zero, Zero))

\* The forward unit vector from the bore angles (z up).
forward_of(cx, sx, ce, se) == Vec3(Mul[ce, cx], Mul[ce, sx], se)

\* The initial state from muzzle position, speed, bore angles and spin.
initial_state_from_muzzle(muzzle_pos_m, muzzle_speed_ms, bore_elevation_rad, bore_azimuth_rad, spin_rad_s) ==
    state_from_forward(muzzle_pos_m, muzzle_speed_ms, spin_rad_s,
        forward_of(Cos(bore_azimuth_rad), Sin(bore_azimuth_rad),
                   Cos(bore_elevation_rad), Sin(bore_elevation_rad)),
        Vec3(One, Zero, Zero))

\* ------------------------------------------------------- integrate_6dof
VARIABLES
    pc,       \* "entry", "loop", "done" (out is returned) or "panic"
    proj,     \* Projectile
    env,      \* Environment
    gravity,  \* Gravity
    initial,  \* the caller's initial State
    opts,     \* IntegrateOpts
    t,        \* elapsed time
    s,        \* current State
    out,      \* the samples pushed so far
    steps,    \* RK4 steps taken
    cap,      \* the capacity out was allocated with
    bore,     \* the bore angles initial was built from, and its scaling
    calls,    \* how often each AeroModel method has been called
    log,      \* per RK4 step: the coefficients queried at s, k1..k4 and
              \* the state rk4_step returned
    other,    \* a second integrate_6dof call of the same process
    table,    \* a solve_table_at_ranges call of the point-mass solver
    lookup,   \* a drag-table query: find_seg or i_si
    probe     \* evaluations of dynamics set side by side

vars ==
    <<pc, proj, env, gravity, initial, opts, t, s, out, steps, cap, bore,
      calls, log, other, table, lookup, probe>>

inputs == <<proj, env, gravity, initial, opts>>

\* What no line of this call of integrate_6dof names.
outside == <<bore, other, table, lookup, probe>>

\* f64::ceil.
Ceil(x) ==
    IF IsSpecial(x) \/ x[1] = 0 \/ x[2] >= 0 THEN x
    ELSE IF -x[2] >= P THEN (IF x[1] > 0 THEN One ELSE Zero)
    ELSE FromInt(-((-x[1]) \div Pow2[-x[2]]))

\* 2^64, the first value beyond usize.
UsizeRange == <<MLo, 64 - (P - 1)>>

\* (opts.max_time / opts.dt).ceil().
ceil_ratio(o) == Ceil(Div[o.max_time, o.dt])

\* The cast `as usize` saturates at usize::MAX: TRUE when it does.
saturates(x) == Le(UsizeRange, x)

\* x as usize for x below 2^64: NaN and the values below zero are 0.
as_usize(x) == IF IsNaN(x) \/ x[1] < 0 THEN Zero ELSE x

\* (opts.max_time / opts.dt).ceil() as usize + 8, when the sum is in range.
capacity(o) == Add[as_usize(ceil_ratio(o)), FromInt(8)]

\* usize::MAX + 8 on a build without overflow checks.
WrappedCapacity == 7

\* size_of::<Sample>(): 19 f64 fields.
SampleBytes == 152

\* Vec::with_capacity(n) panics when n * size_of::<Sample>() is above
\* isize::MAX = 2^63 - 1.
CapacityLimit == Div[<<MLo, 63 - (P - 1)>>, FromInt(SampleBytes)]

\* The loop condition with the step budget compared by <=.
loop_cond_inclusive(tt, st, o) == Le(tt, o.max_time) /\ st <= o.max_steps

\* The loop condition with the step budget one short.
loop_cond_short(tt, st, o) == Le(tt, o.max_time) /\ st + 1 < o.max_steps

\* The loop condition with the time budget compared by <.
loop_cond_strict(tt, st, o) == Lt(tt, o.max_time) /\ st < o.max_steps

\* The loop condition of the driver.
loop_cond(tt, st, o) == Le(tt, o.max_time) /\ st < o.max_steps

\* The ground-hit condition against z = 0 instead of opts.ground_z.
ground_hit_at_zero(ss, tt, o) == Le(ss.r.z, Zero) /\ Lt(Zero, tt)

\* The ground-hit condition with the time guard t >= 0 instead of t > 0.
ground_hit_from_start(ss, tt, o) == Le(ss.r.z, o.ground_z) /\ Le(Zero, tt)

\* The ground-hit condition with the comparison turned round: z at or
\* above the threshold.
ground_hit_above(ss, tt, o) == Le(o.ground_z, ss.r.z) /\ Lt(Zero, tt)

\* The ground-hit condition of the driver.
ground_hit(ss, tt, o) == Le(ss.r.z, o.ground_z) /\ Lt(Zero, tt)

\* s.q = Quaternion::identity() in place of the renormalization.
renormalized_to_identity(n) == [n EXCEPT !.q = Quaternion_identity]

\* s.q = s.q.normalize().
renormalized(n) == [n EXCEPT !.q = Quaternion_normalize(n.q)]

\* A Sample whose state is renormalized before it is stored.
Sample_of_normalized(tt, ss, fl) ==
    [t |-> tt, state |-> renormalized(ss), mach |-> fl.mach, qbar |-> fl.qbar,
     rho |-> fl.rho, alpha |-> fl.alpha, beta |-> fl.beta]

\* Sample { t, state: s, mach, qbar, rho, alpha, beta }.
Sample_of(tt, ss, fl) ==
    [t |-> tt, state |-> ss, mach |-> fl.mach, qbar |-> fl.qbar,
     rho |-> fl.rho, alpha |-> fl.alpha, beta |-> fl.beta]

\* The sample the driver pushes at state ss and time tt.
Sample(tt, ss, e) == Sample_of(tt, ss, flow_numbers(ss, e))

\* t = dt instead of t += dt.
advance_time_reset(tt, dt) == dt

\* t += dt on a clock the calls of the process share.
advance_time_shared(tt, dt) == Add[other.t, dt]

\* t += dt.
advance_time(tt, dt) == Add[tt, dt]

\* The AeroModel methods.
AeroMethods ==
    {"c_d", "c_l_alpha", "c_y_beta", "c_m_alpha", "c_m_q", "c_l_p", "c_magnus"}

\* The aero calls of one dynamics evaluation with c_m_alpha called where it
\* is used, for the pitch and for the yaw moment.
dynamics_queries_per_use ==
    <<"c_d", "c_l_alpha", "c_y_beta", "c_m_alpha", "c_m_alpha", "c_m_q",
      "c_l_p", "c_magnus">>

\* The aero calls of one dynamics evaluation, in the order of the code.
dynamics_queries ==
    <<"c_d", "c_l_alpha", "c_y_beta", "c_m_alpha", "c_m_q", "c_l_p",
      "c_magnus">>

\* The aero calls of flow_numbers: it takes no AeroModel.
flow_numbers_queries == <<>>

\* The aero calls of one rk4_step with derivatives ks: one dynamics
\* evaluation per derivative.
RECURSIVE rk4_queries(_)
rk4_queries(ks) ==
    IF ks = <<>> THEN <<>> ELSE dynamics_queries \o rk4_queries(Tail(ks))

\* The call counts c after the calls qs.
called(c, qs) ==
    [m \in AeroMethods |-> c[m] + Cardinality({i \in DOMAIN qs : qs[i] = m})]

\* An AeroModel with hidden state: the drag curve is consulted on the first
\* call only, later calls return the transonic value.
aero_coefficients_stateful(fl) ==
    [mach |-> fl.mach, alpha |-> fl.alpha, beta |-> fl.beta,
     c_d |-> IF calls["c_d"] = 0 THEN c_d(fl.mach, fl.alpha, fl.beta)
             ELSE CdTransonic,
     c_l_alpha |-> c_l_alpha(fl.mach), c_y_beta |-> c_y_beta(fl.mach),
     c_m_alpha |-> c_m_alpha(fl.mach), c_m_q |-> c_m_q(fl.mach),
     c_l_p |-> c_l_p(fl.mach), c_magnus |-> c_magnus(fl.mach)]

\* What dynamics reads from the AeroModel at flow numbers fl.
aero_coefficients(fl) ==
    [mach |-> fl.mach, alpha |-> fl.alpha, beta |-> fl.beta,
     c_d |-> c_d(fl.mach, fl.alpha, fl.beta),
     c_l_alpha |-> c_l_alpha(fl.mach), c_y_beta |-> c_y_beta(fl.mach),
     c_m_alpha |-> c_m_alpha(fl.mach), c_m_q |-> c_m_q(fl.mach),
     c_l_p |-> c_l_p(fl.mach), c_magnus |-> c_magnus(fl.mach)]

\* Lines 237-242 when the capacity is computed and allocated.
Enter ==
    /\ pc = "entry"
    /\ ~saturates(ceil_ratio(opts))
    /\ Le(capacity(opts), CapacityLimit)
    /\ cap' = capacity(opts)
    /\ t' = Zero
    /\ s' = initial
    /\ out' = <<>>
    /\ steps' = 0
    /\ pc' = "loop"
    /\ UNCHANGED <<inputs, calls, log, outside>>

\* Lines 237-242 when usize::MAX + 8 overflows and overflow checks are off:
\* the sum wraps.
EnterWrap ==
    /\ pc = "entry"
    /\ saturates(ceil_ratio(opts))
    /\ cap' = FromInt(WrappedCapacity)
    /\ t' = Zero
    /\ s' = initial
    /\ out' = <<>>
    /\ steps' = 0
    /\ pc' = "loop"
    /\ UNCHANGED <<inputs, calls, log, outside>>

\* Line 239 when usize::MAX + 8 overflows and overflow checks are on: the
\* call panics ("attempt to add with overflow").
EnterPanic ==
    /\ pc = "entry"
    /\ saturates(ceil_ratio(opts))
    /\ pc' = "panic"
    /\ UNCHANGED <<inputs, t, s, out, steps, cap, calls, log, outside>>

\* Line 239 when the capacity is beyond what Vec::with_capacity accepts: the
\* call panics ("capacity overflow") on every build.
EnterCapacityPanic ==
    /\ pc = "entry"
    /\ ~saturates(ceil_ratio(opts))
    /\ ~Le(capacity(opts), CapacityLimit)
    /\ pc' = "panic"
    /\ UNCHANGED <<inputs, t, s, out, steps, cap, calls, log, outside>>

\* One iteration that ends in the ground-hit break: push, break, return.
IterGround ==
    /\ pc = "loop"
    /\ loop_cond(t, steps, opts)
    /\ ground_hit(s, t, opts)
    /\ out' = Append(out, Sample(t, s, env))
    /\ calls' = called(calls, flow_numbers_queries)
    /\ pc' = "done"
    /\ UNCHANGED <<inputs, t, s, steps, cap, log, outside>>

\* One full iteration: push, RK4 step, renormalize, advance t and steps.
IterStep ==
    /\ pc = "loop"
    /\ loop_cond(t, steps, opts)
    /\ ~ground_hit(s, t, opts)
    /\ \E sm \in {Sample(t, s, env)},
          tr \in {rk4_traced(s, opts.dt, proj, gravity, env)} :
          /\ out' = Append(out, sm)
          /\ s' = renormalized(tr.ret)
          /\ log' = Append(log, [coef |-> aero_coefficients(sm), ks |-> tr.ks,
                                 ret |-> tr.ret])
          /\ calls' = called(called(calls, flow_numbers_queries),
                             rk4_queries(tr.ks))
    /\ t' = advance_time(t, opts.dt)
    /\ steps' = steps + 1
    /\ UNCHANGED <<inputs, pc, cap, outside>>

\* The return with the state of the last step pushed as one more sample.
Return_emitting ==
    /\ pc = "loop"
    /\ ~loop_cond(t, steps, opts)
    /\ pc' = "done"
    /\ out' = Append(out, Sample(t, s, env))
    /\ UNCHANGED <<inputs, t, s, steps, cap, calls, log, outside>>

\* The loop condition fails: return out.
Return ==
    /\ pc = "loop"
    /\ ~loop_cond(t, steps, opts)
    /\ pc' = "done"
    /\ UNCHANGED <<inputs, t, s, out, steps, cap, calls, log, outside>>

\* ------------------------------------------- a second call in the process
\* A call of integrate_6dof as a value: its arguments and its locals.
\* checked is TRUE on a build with overflow checks.
run_of(c, checked) ==
    [pc |-> "entry", proj |-> c[1], env |-> c[2], gravity |-> c[3],
     initial |-> c[4], opts |-> c[5], t |-> Zero, s |-> c[4], out |-> <<>>,
     steps |-> 0, cap |-> Zero, checked |-> checked]

\* Lines 237-242 of the call r.
entered(r) ==
    IF saturates(ceil_ratio(r.opts))
    THEN IF r.checked THEN [r EXCEPT !.pc = "panic"]
         ELSE [r EXCEPT !.pc = "loop", !.cap = FromInt(WrappedCapacity)]
    ELSE IF Le(capacity(r.opts), CapacityLimit)
         THEN [r EXCEPT !.pc = "loop", !.cap = capacity(r.opts)]
         ELSE [r EXCEPT !.pc = "panic"]

\* Lines 245-259 of the call r after the sample sm is built.
pushed(r, sm) ==
    IF ground_hit(r.s, r.t, r.opts)
    THEN [r EXCEPT !.out = Append(@, sm), !.pc = "done"]
    ELSE [r EXCEPT !.out = Append(@, sm),
                   !.s = renormalized(rk4_step(r.s, r.opts.dt, r.proj,
                                               r.gravity, r.env)),
                   !.t = advance_time(r.t, r.opts.dt),
                   !.steps = @ + 1]

\* One pass of the while loop of the call r, or its return.
iterated(r) ==
    IF ~loop_cond(r.t, r.steps, r.opts) THEN [r EXCEPT !.pc = "done"]
    ELSE Only({pushed(r, sm) : sm \in {Sample(r.t, r.s, r.env)}})

\* The next step of the call r.
integrate_6dof_step(r) == IF r.pc = "entry" THEN entered(r) ELSE iterated(r)

\* The call r run to its end with nothing in between.
RECURSIVE integrate_6dof(_)
integrate_6dof(r) ==
    IF r.pc \in {"done", "panic"} THEN r
    ELSE Only({integrate_6dof(n) : n \in {integrate_6dof_step(r)}})

\* The second call takes its next step.
OtherStep ==
    /\ other.pc \in {"entry", "loop"}
    /\ other' = integrate_6dof_step(other)
    /\ UNCHANGED <<inputs, pc, t, s, out, steps, cap, bore, calls, log>>
    /\ UNCHANGED <<table, lookup, probe>>

\* ------------------------------------------------------------- the inputs
\* max_steps ranges over 0 .. MaxSteps.
MaxSteps == 4

\* The time step of the launches: 2 ms.
Dt == Dec(2, 1000)

\* The time steps: NaN, below zero, zero, 2^-70 (max_time / dt is beyond
\* usize), 2^-60 (the capacity is beyond what a Vec accepts), and 2 ms.
TimeSteps ==
    {NaN, Neg(Dt), Zero, <<MLo, -70 - (P - 1)>>, <<MLo, -60 - (P - 1)>>, Dt}

\* The time budgets: below zero, zero, one and a half steps, 2 s.
TimeBudgets == {Neg(Dt), Zero, Mul[Dec(3, 2), Dt], Two}

\* A 10 g, 7.82 mm, 35 mm projectile with the given spin.
Projectile(spin) ==
    projectile_cylindrical(Dec(10, 1000), Dec(782, 100000), Dec(35, 1000), spin)

StandardEnvironment ==
    [temperature_c |-> FromInt(15), pressure_hpa |-> FromInt(1013),
     humidity_pct |-> FromInt(50)]

\* Gravity down and up.
Gravities == {[g |-> Neg(AtmosG)], [g |-> AtmosG]}

\* The spins: none and 2000 rad/s.
Spins == {Zero, FromInt(2000)}

\* Bore elevations: level, and 0.1 rad down.
Elevations == {Zero, Dec(-1, 10)}

\* Muzzle heights: at and above z = 0.
Heights == {Zero, Dec(1, 100)}

\* Ground thresholds.
Grounds == {Zero, Dec(1, 100)}

\* State m with its orientation scaled by k.
with_orientation_scaled(m, k) == [m EXCEPT !.q = Quaternion_scale(m.q, k)]

\* A launch at 800 m/s from height h.
Launch(h, elevation, spin) ==
    initial_state_from_muzzle(Vec3(Zero, Zero, h), FromInt(800), elevation,
                              Zero, spin)

\* integrate_6dof(proj, env, gravity, aero, initial, opts).
Call(p, e, g, i, o) == <<p, e, g, i, o>>

\* The bore angles of a launch and the scaling of its orientation.
Bore(elevation, azimuth, k) ==
    [elevation |-> elevation, azimuth |-> azimuth, scale |-> k]

\* The call c with the bore b its initial state was built from.
Launched(c, b) == Append(c, b)

\* Calls over every IntegrateOpts shape, for one launch, with the ground at
\* the muzzle and 1 m below it.
OptionCalls ==
    {Launched(Call(Projectile(Zero), StandardEnvironment, [g |-> Neg(AtmosG)],
                   Launch(Zero, Zero, Zero),
                   [dt |-> d, max_time |-> m, max_steps |-> n,
                    ground_z |-> gz]),
              Bore(Zero, Zero, One)) :
        d \in TimeSteps, m \in TimeBudgets, n \in 0 .. MaxSteps,
        gz \in {Neg(One), Zero}}

\* Calls over the launches, with the orientation as built and scaled by 2
\* (not a unit quaternion), with a step budget of 2 and of MaxSteps.
LaunchCalls ==
    {Launched(Call(Projectile(sp), StandardEnvironment, g,
                   with_orientation_scaled(Launch(h, el, sp), k),
                   [dt |-> Dt, max_time |-> Two, max_steps |-> n,
                    ground_z |-> gz]),
              Bore(el, Zero, k)) :
        sp \in Spins, g \in Gravities, h \in Heights, el \in Elevations,
        k \in {One, Two}, gz \in Grounds, n \in {2, MaxSteps}}

\* Bore azimuths: along x, along y, and against x.
Azimuths == {Zero, HalfPi, PI}

\* Muzzle speeds in m/s, one in each band of the drag curve.
Speeds == {FromInt(200), FromInt(340), FromInt(500), FromInt(800)}

\* A launch from z = 1 m without spin.
Shot(speed, elevation, azimuth) ==
    initial_state_from_muzzle(Vec3(Zero, Zero, One), speed, elevation,
                              azimuth, Zero)

\* Calls over the bore angles and the muzzle speeds, two steps each.
BoreCalls ==
    {Launched(Call(Projectile(Zero), StandardEnvironment, [g |-> Neg(AtmosG)],
                   Shot(v, el, az),
                   [dt |-> Dt, max_time |-> Two, max_steps |-> 2,
                    ground_z |-> Zero]),
              Bore(el, az, One)) :
        v \in Speeds, el \in Elevations, az \in Azimuths}

\* A call whose initial orientation is the zero quaternion.
DegenerateCalls ==
    {Launched(Call(Projectile(FromInt(2000)), StandardEnvironment,
                   [g |-> Neg(AtmosG)],
                   with_orientation_scaled(Launch(One, Zero, FromInt(2000)),
                                           Zero),
                   [dt |-> Dt, max_time |-> Two, max_steps |-> 2,
                    ground_z |-> Zero]),
              Bore(Zero, Zero, Zero))}

\* tests::integrates_basic_case: 10 g, 7.82 mm, 35 mm, 4000 rad/s, level
\* from z = 0 at 800 m/s; dt 2 ms, 2 s, 10000 steps.
BasicCase ==
    Launched(Call(Projectile(FromInt(4000)), StandardEnvironment,
                  [g |-> Neg(AtmosG)],
                  initial_state_from_muzzle(Vec3_zero, FromInt(800), Zero,
                                            Zero, FromInt(4000)),
                  [dt |-> Dt, max_time |-> Two, max_steps |-> 10000,
                   ground_z |-> Zero]),
             Bore(Zero, Zero, One))

\* 2.0_f64.to_radians().
TwoDegrees == Mul[Two, Div[PI, FromInt(180)]]

\* six_dof_runs_and_hits_ground: 9.5 g, 7.82 mm, 28 mm, 3000 rad/s, 2
\* degrees up from z = 1 m at 820 m/s; dt 1.5 ms, 3 s, 2000000 steps.
SmokeTest ==
    Launched(Call(projectile_cylindrical(Dec(95, 10000), Dec(782, 100000),
                                         Dec(28, 1000), FromInt(3000)),
                  StandardEnvironment, [g |-> Neg(AtmosG)],
                  initial_state_from_muzzle(Vec3(Zero, Zero, One),
                                            FromInt(820), TwoDegrees, Zero,
                                            FromInt(3000)),
                  [dt |-> Dec(15, 10000), max_time |-> FromInt(3),
                   max_steps |-> 2000000, ground_z |-> Zero]),
             Bore(TwoDegrees, Zero, One))

ScenarioCalls == {BasicCase, SmokeTest}

\* An environment without air.
Vacuum == [StandardEnvironment EXCEPT !.pressure_hpa = Zero]

\* A drop in vacuum with the ground far below, so that the time budget
\* ends the call: steps of 0.2 s for 0.6 s and for 0.8 s, six steps allowed.
BudgetCalls ==
    {Launched(Call(Projectile(Zero), Vacuum, [g |-> Neg(AtmosG)],
                   Launch(Zero, Zero, Zero),
                   [dt |-> Dec(2, 10), max_time |-> m, max_steps |-> 6,
                    ground_z |-> FromInt(-1000000)]),
              Bore(Zero, Zero, One)) :
        m \in {Dec(6, 10), Dec(8, 10)}}

Calls ==
    OptionCalls \cup LaunchCalls \cup BoreCalls \cup DegenerateCalls
        \cup ScenarioCalls \cup BudgetCalls

\* No second call.
Idle == [pc |-> "idle"]

\* The state at the entry of a call of cs, with a second call of os.
InitWith(cs, os) ==
    /\ pc = "entry"
    /\ \E c \in cs :
          /\ proj = c[1]
          /\ env = c[2]
          /\ gravity = c[3]
          /\ initial = c[4]
          /\ opts = c[5]
          /\ bore = c[6]
    /\ t = Zero
    /\ s = initial
    /\ out = <<>>
    /\ steps = 0
    /\ cap = Zero
    /\ calls = [m \in AeroMethods |-> 0]
    /\ log = <<>>
    /\ other \in os

\* No point-mass call, no drag-table query and no side-by-side evaluation.
Quiet == table = Idle /\ lookup = Idle /\ probe = Idle

Init == InitWith(Calls, {Idle}) /\ Quiet

Next ==
    \/ Enter
    \/ EnterWrap
    \/ EnterPanic
    \/ EnterCapacityPanic
    \/ IterGround
    \/ IterStep
    \/ Return

Spec == Init /\ [][Next]_vars

\* ------------------------------------------------- two calls, interleaved
\* Calls that between them take every branch of the driver.
PairCalls ==
    {c \in Calls :
        \/ /\ c[5].dt = Dt /\ c[5].max_steps = MaxSteps
           /\ c[5].max_time = Mul[Dec(3, 2), Dt] /\ c[5].ground_z = Zero
        \/ /\ c[5].dt[2] < -60 /\ c[5].max_steps = 1 /\ c[5].max_time = Two
           /\ c[5].ground_z = Zero
        \/ /\ c[4].w.x = FromInt(2000) /\ c[6] = Bore(Zero, Zero, One)
           /\ c[5].max_steps = MaxSteps /\ c[3].g = Neg(AtmosG)
           /\ c[4].r.z = Zero /\ c[5].ground_z = Zero}

PairInit ==
    /\ InitWith(PairCalls, {run_of(c, b) : c \in PairCalls, b \in BOOLEAN})
    /\ Quiet

PairNext == Next \/ OtherStep

PairSpec == PairInit /\ [][PairNext]_vars

\* ------------------------------------------------------------ properties
\* The indices of the samples pushed so far.
Samples == 1 .. Len(out)

\* The last sample pushed.
LastSample == out[Len(out)]

\* The tolerance on the norm of an orientation.  The numbers of the model
\* carry P bits, so the tolerance sits above their rounding error (2^-P) and
\* below any defect of a norm: 2^-10.
QuatTol == <<MLo, -10 - (P - 1)>>

\* | |q| - 1 | <= the tolerance.
IsUnit(q) == Le(FAbs(Sub[Quaternion_norm(q), One]), QuatTol)

\* Every component of q is NaN.
IsNaNQuat(q) == IsNaN(q.w) /\ IsNaN(q.x) /\ IsNaN(q.y) /\ IsNaN(q.z)

C2_TimesAccumulate ==
    \A k \in Samples :
        IF k = 1 THEN out[k].t = Zero
        ELSE /\ out[k].t = Add[out[k - 1].t, opts.dt]
             /\ Lt(Zero, opts.dt) =>
                    Lt(out[k - 1].t, out[k].t) \/ out[k].t = out[k - 1].t

\* C2 witness: three samples taken with a positive time step.
C2_ThreeSamplesForward == Len(out) >= 3 /\ Lt(Zero, opts.dt)

\* C2 as stated: the times increase strictly and sample k (from 0) has
\* t = k * dt, for every IntegrateOpts.
C2_TimesAreMultiples ==
    \A k \in Samples :
        /\ out[k].t = Mul[FromInt(k - 1), opts.dt]
        /\ k > 1 => Lt(out[k - 1].t, out[k].t)

\* C3: a sample with t > 0 and z <= ground_z is the last one: the call has
\* returned, no step was taken and no sample was pushed after it.
C3_GroundSampleIsLast ==
    \A k \in Samples :
        (Lt(Zero, out[k].t) /\ Le(out[k].state.r.z, opts.ground_z)) =>
            /\ k = Len(out)
            /\ pc = "done"
            /\ steps = k - 1
            /\ s = out[k].state
            /\ t = out[k].t

\* C3 witness: a call that returned on a ground sample before its budgets
\* ran out.
C3_EndedByGround ==
    /\ pc = "done"
    /\ out # <<>>
    /\ Lt(Zero, LastSample.t)
    /\ Le(LastSample.state.r.z, opts.ground_z)
    /\ Len(out) < opts.max_steps
    /\ Le(t, opts.max_time)

\* C4: a non-empty sequence starts with a sample at t = 0 that carries the
\* caller's initial state unchanged.
C4_FirstSampleIsInitial ==
    out # <<>> => out[1].t = Zero /\ out[1].state = initial

\* C4 witness: the state has moved on, the caller's orientation was not a
\* unit quaternion, and a first sample exists.
C4_FirstSampleKept == Len(out) >= 2 /\ s # initial /\ ~IsUnit(initial.q)

\* The initial state is at or below the ground and the step budget allows
\* two iterations.
StartsAtOrBelowGround ==
    Le(initial.r.z, opts.ground_z) /\ opts.max_steps >= 2

C6_WithinBudgets ==
    /\ Len(out) <= opts.max_steps
    /\ \A k \in Samples : ~Lt(opts.max_time, out[k].t)

\* C6 witness: a call that returned with the time budget exhausted, after
\* two samples or more.
C6_EndedByTime ==
    pc = "done" /\ Lt(opts.max_time, t) /\ Len(out) >= 2

\* The call returned on a ground sample.
GroundImpact ==
    /\ out # <<>>
    /\ Lt(Zero, LastSample.t)
    /\ Le(LastSample.state.r.z, opts.ground_z)

\* t <= max_time no longer holds: t > max_time, or one of them is NaN.
TimeBudgetOver == ~Le(t, opts.max_time)

\* steps = max_steps.
StepBudgetOver == steps = opts.max_steps

CountTrue(a, b, c) ==
    (IF a THEN 1 ELSE 0) + (IF b THEN 1 ELSE 0) + (IF c THEN 1 ELSE 0)

C8_AtLeastOneSample ==
    (/\ pc \in {"done", "panic"}
     /\ opts.max_steps >= 1
     /\ Le(Zero, opts.max_time)) => pc = "done" /\ Len(out) >= 1

\* C9 as stated: no call panics, whatever the IntegrateOpts.
C9_NoPanic == pc # "panic"

\* A launch as initial_state_from_muzzle builds it, with zero elevation.
LevelLaunch == \E h \in Heights, sp \in Spins : initial = Launch(h, Zero, sp)

\* C10 as stated, for gravity pointing down: a level launch with the ground
\* threshold at or above the muzzle returns a sequence whose last sample has
\* z <= ground_z.
C10_LastSampleAtOrBelowGround ==
    (/\ pc = "done"
     /\ out # <<>>
     /\ LevelLaunch
     /\ Lt(gravity.g, Zero)
     /\ Le(initial.r.z, opts.ground_z)) =>
        Le(LastSample.state.r.z, opts.ground_z)

\* ------------------------------------------------------------- two calls
\* The arguments of this call and of the second call.
ThisCall == <<proj, env, gravity, initial, opts>>

OtherCall == <<other.proj, other.env, other.gravity, other.initial, other.opts>>

\* The call has returned or panicked.
Ended(p) == p \in {"done", "panic"}

\* This call ended as the call a, run alone, ends.
ThisEndedAs(a) == a.pc = pc /\ a.out = out

\* The second call ended as the call a, run alone, ends.
OtherEndedAs(a) == a.pc = other.pc /\ a.out = other.out

\* The locals of this call.
locals == <<pc, t, s, out, steps, cap>>

\* C11: when two calls of integrate_6dof, each with its own arguments and
\* its own output buffer, take their steps in any order, each one ends with
\* the samples it ends with when it runs alone, and no step of one call
\* changes the locals of the other.
C11_InterleavedAsAlone ==
    /\ [](Ended(pc) =>
            \E b \in BOOLEAN :
                \E a \in {integrate_6dof(run_of(ThisCall, b))} : ThisEndedAs(a))
    /\ [](Ended(other.pc) =>
            \E a \in {integrate_6dof(run_of(OtherCall, other.checked))} :
                OtherEndedAs(a))
    /\ [][other' = other \/ locals' = locals]_vars

\* C11 witness: two calls with different arguments have both returned,
\* one with three samples and one with two.
C11_BothReturned ==
    /\ pc = "done" /\ other.pc = "done"
    /\ ThisCall # OtherCall
    /\ Len(out) = 3 /\ Len(other.out) = 2

\* ------------------------------------------------------- the aero queries
\* C12: each of the seven AeroModel methods is called once in every
\* dynamics evaluation, so four times in every RK4 step, and pushing a
\* sample calls none of them: after n RK4 steps each method has been called
\* 4 n times, and every step recorded four derivatives.
C12_FourCallsPerStep ==
    /\ \A m \in AeroMethods : calls[m] = 4 * steps
    /\ Len(log) = steps
    /\ \A i \in DOMAIN log : Len(log[i].ks) = 4

\* C12 witness: a call that returned on a ground hit after two RK4 steps
\* and three samples.
C12_TwoStepsThreeSamples ==
    /\ pc = "done" /\ steps = 2 /\ Len(out) = 3
    /\ calls["c_m_alpha"] = 8

\* ------------------------------------------------------------- rk4_step
\* The quaternion rk4_step normalizes in step i:
\* s.q + (k1.q + (k2.q + k3.q) * 2 + k4.q) * (dt / 6).
RawBlend(i) ==
    Quaternion_add(
        out[i].state.q,
        Quaternion_scale(
            Quaternion_add(
                Quaternion_add(
                    log[i].ks[1].q,
                    Quaternion_scale(
                        Quaternion_add(log[i].ks[2].q, log[i].ks[3].q), Two)),
                log[i].ks[4].q),
            Div[opts.dt, FromInt(6)]))

\* Quaternion q has a norm, not NaN and not overflowed.
HasNorm(q) == ~IsSpecial(Quaternion_norm(q))

\* Quaternion n is what the claim says rk4_step returns for the blend q.
UnitOrIdentity(n, q) ==
    IF Lt(Quaternion_norm(q), EpsQuat) THEN n = Quaternion_identity
    ELSE IsUnit(n)

\* C13 (as amended): the orientation rk4_step returns is unit-norm, or the
\* identity when the norm of the blend is below 1e-15, whenever the blend
\* of the step has a norm (no NaN, no infinity, no overflow of the squares);
\* when it has none the orientation returned is not unit-norm.
C13_UnitWhenBlendHasNorm ==
    \A i \in DOMAIN log :
        IF HasNorm(RawBlend(i)) THEN UnitOrIdentity(log[i].ret.q, RawBlend(i))
        ELSE ~IsUnit(log[i].ret.q)

\* C13 witness: a step whose blend has norm 2 and whose returned
\* orientation is unit-norm.
C13_NormalizedBlend ==
    \E i \in DOMAIN log :
        /\ Quaternion_norm(RawBlend(i)) = Two
        /\ IsUnit(log[i].ret.q)

\* C13 as stated: for every state and dt the orientation rk4_step returns
\* is unit-norm, or the identity when the norm of the blend is below 1e-15.
C13_UnitForEveryStateAndDt ==
    \A i \in DOMAIN log : UnitOrIdentity(log[i].ret.q, RawBlend(i))

\* ------------------------------------------------- Quaternion::normalize
\* sqrt(w*w + x*x + y*y + z*z).
NormOf(q) ==
    Sqrt(Add[Add[Add[Mul[q.w, q.w], Mul[q.x, q.x]], Mul[q.y, q.y]],
             Mul[q.z, q.z]])

\* The state after step i: the one the next sample holds, or s.
After(i) == IF i < Len(out) THEN out[i + 1].state ELSE s

\* Quaternion n is the identity when the norm of q is below 1e-15 and q
\* divided by its norm otherwise.
IdentityOrScaled(n, q) ==
    IF Lt(NormOf(q), EpsQuat)
    THEN n = [w |-> One, x |-> Zero, y |-> Zero, z |-> Zero]
    ELSE n = [w |-> Div[q.w, NormOf(q)], x |-> Div[q.x, NormOf(q)],
              y |-> Div[q.y, NormOf(q)], z |-> Div[q.z, NormOf(q)]]

\* C14: Quaternion::normalize returns the identity (1, 0, 0, 0) for an input
\* of norm below 1e-15, the all-zero quaternion included, and the input
\* divided by its norm otherwise, in rk4_step and in the driver alike; a
\* call of integrate_6dof that has entered its loop does not panic.
C14_IdentityOrInputOverNorm ==
    /\ \A i \in DOMAIN log :
          /\ IdentityOrScaled(log[i].ret.q, RawBlend(i))
          /\ IdentityOrScaled(After(i).q, log[i].ret.q)
    /\ log # <<>> => pc # "panic"

\* C14 witness: rk4_step normalized the all-zero quaternion to the identity.
C14_ZeroToIdentity ==
    \E i \in DOMAIN log :
        /\ RawBlend(i) = [w |-> Zero, x |-> Zero, y |-> Zero, z |-> Zero]
        /\ log[i].ret.q = Quaternion_identity

\* ------------------------------------------- initial_state_from_muzzle
\* Vectors a and b agree to 2^-8 in every component.
CloseVec(a, b) ==
    /\ Le(FAbs(Sub[a.x, b.x]), <<MLo, -8 - (P - 1)>>)
    /\ Le(FAbs(Sub[a.y, b.y]), <<MLo, -8 - (P - 1)>>)
    /\ Le(FAbs(Sub[a.z, b.z]), <<MLo, -8 - (P - 1)>>)

\* (cos e cos a, cos e sin a, sin e) for the bore angles of the call.
BoreForward ==
    Vec3(Mul[Cos(bore.elevation), Cos(bore.azimuth)],
         Mul[Cos(bore.elevation), Sin(bore.azimuth)], Sin(bore.elevation))

\* The body x-axis.
BodyX == Vec3(One, Zero, Zero)

\* The initial state is as initial_state_from_muzzle returned it.
AsBuilt == bore.scale = One

\* C15: for every bore elevation and azimuth, the forward vector opposite
\* to the body x-axis included, initial_state_from_muzzle returns a unit
\* orientation that rotates the body x-axis (1, 0, 0) onto the forward
\* vector, and the identity when the forward vector is the body x-axis.
C15_UnitRotationOntoForward ==
    AsBuilt =>
        /\ IsUnit(initial.q)
        /\ CloseVec(Quaternion_rotate_vec(initial.q, BodyX), BoreForward)
        /\ BoreForward = BodyX => initial.q = Quaternion_identity

\* C15 away from the forward vector opposite to the body x-axis.
C15_UnlessOpposite ==
    AsBuilt /\ ~(bore.azimuth = PI /\ bore.elevation = Zero) =>
        /\ IsUnit(initial.q)
        /\ CloseVec(Quaternion_rotate_vec(initial.q, BodyX), BoreForward)
        /\ BoreForward = BodyX => initial.q = Quaternion_identity

\* ----------------------------------------------------- DefaultAeroApprox
\* The drag coefficient c is the one of the band Mach number m lies in.
InDragBand(m, c) ==
    /\ Lt(m, Dec(8, 10)) => c = Dec(25, 100)
    /\ Le(Dec(8, 10), m) /\ Lt(m, Dec(12, 10)) => c = Dec(40, 100)
    /\ Le(Dec(12, 10), m) /\ Lt(m, Two) => c = Dec(30, 100)
    /\ Le(Two, m) => c = Dec(25, 100)

\* C16: the drag coefficient of DefaultAeroApprox is 0.25 for mach < 0.8,
\* 0.40 for 0.8 <= mach < 1.2, 0.30 for 1.2 <= mach < 2.0 and 0.25 for
\* mach >= 2.0, whatever alpha and beta, and the other six coefficients are
\* the constants 2.8, 2.8, -0.9, -20.0, -0.02 and 0.1.
C16_DragBandsAndConstants ==
    \A i \in DOMAIN log :
        /\ InDragBand(log[i].coef.mach, log[i].coef.c_d)
        /\ log[i].coef.c_l_alpha = Dec(28, 10)
        /\ log[i].coef.c_y_beta = Dec(28, 10)
        /\ log[i].coef.c_m_alpha = Dec(-9, 10)
        /\ log[i].coef.c_m_q = FromInt(-20)
        /\ log[i].coef.c_l_p = Dec(-2, 100)
        /\ log[i].coef.c_magnus = Dec(1, 10)

\* C16 witness: a transonic query at a non-zero angle of attack.
C16_TransonicQuery ==
    \E i \in DOMAIN log :
        /\ Le(Dec(8, 10), log[i].coef.mach) /\ Lt(log[i].coef.mach, Dec(12, 10))
        /\ log[i].coef.alpha # Zero
        /\ log[i].coef.c_d = Dec(40, 100)

\* Queries in the other three bands.
SubsonicQuery == \E i \in DOMAIN log : Lt(log[i].coef.mach, Dec(8, 10))

LowSupersonicQuery ==
    \E i \in DOMAIN log :
        Le(Dec(12, 10), log[i].coef.mach) /\ Lt(log[i].coef.mach, Two)

HighSupersonicQuery == \E i \in DOMAIN log : Le(Two, log[i].coef.mach)

\* Queries i and j of the log were made with the same (mach, alpha, beta).
SameQuery(i, j) ==
    /\ log[i].coef.mach = log[j].coef.mach
    /\ log[i].coef.alpha = log[j].coef.alpha
    /\ log[i].coef.beta = log[j].coef.beta

ForwardLaunch == AsBuilt /\ Lt(Zero, opts.dt) /\ Lt(Zero, initial.v.x)

\* x and y are both above or both below zero.
SameSign(x, y) ==
    (Lt(Zero, x) /\ Lt(Zero, y)) \/ (Lt(x, Zero) /\ Lt(y, Zero))

\* C18 as stated, for dt > 0: for a projectile of projectile_cylindrical
\* launched at zero angle of attack and sideslip, the roll acceleration
\* dynamics returns at the muzzle does not have the sign of the roll rate,
\* and the magnitude of the roll rate never increases from one sample to
\* the next.
C18_SpinNeverGrows ==
    ForwardLaunch =>
        /\ log # <<>> => ~SameSign(log[1].ks[1].w.x, out[1].state.w.x)
        /\ \A i \in Samples :
              i > 1 => Le(FAbs(out[i].state.w.x), FAbs(out[i - 1].state.w.x))

\* C18 at the muzzle alone: the roll acceleration opposes the roll rate.
C18_RollDampedAtMuzzle ==
    ForwardLaunch /\ log # <<>> =>
        ~SameSign(log[1].ks[1].w.x, out[1].state.w.x)

\* C18 in the launches without spin.
C18_NoSpinStaysNone ==
    ForwardLaunch /\ initial.w.x = Zero =>
        \A i \in Samples : out[i].state.w.x = Zero

\* C19 as stated, for dt > 0 and a sequence of two samples or more: in a
\* launch without wind whose initial velocity has a positive x-component
\* the inertial x never decreases from one sample to the next, and the last
\* sample's x is beyond the first sample's.
C19_DownrangeNeverDecreases ==
    ForwardLaunch =>
        /\ \A i \in Samples :
              i > 1 => Le(out[i - 1].state.r.x, out[i].state.r.x)
        /\ pc = "done" /\ Len(out) >= 2 =>
              Lt(out[1].state.r.x, LastSample.state.r.x)

\* C19 in the launches without spin.
C19_NoSpinDownrange ==
    ForwardLaunch /\ initial.w.x = Zero =>
        /\ \A i \in Samples :
              i > 1 => Le(out[i - 1].state.r.x, out[i].state.r.x)
        /\ pc = "done" /\ Len(out) >= 2 =>
              Lt(out[1].state.r.x, LastSample.state.r.x)

\* The call is one of the two test scenarios.
IsScenario == <<proj, env, gravity, initial, opts, bore>> \in ScenarioCalls

FMin(x, y) ==
    IF IsNaN(x) THEN y ELSE IF IsNaN(y) THEN x
    ELSE IF LtOrd(y, x) THEN y ELSE x

\* x == y on f64: false when either is NaN.
FEq(x, y) == ~IsNaN(x) /\ ~IsNaN(y) /\ x = y

\* f64::signum: 1.0 from +0.0 upwards, -1.0 below, NaN for NaN.
signum(x) == IF IsNaN(x) THEN NaN ELSE IF x[1] < 0 THEN Neg(One) ELSE One

\* f64::to_radians.
to_radians(x) == Mul[x, Div[PI, FromInt(180)]]

\* Sea-level density, kg/m^3.
RHO0 == Dec(1225, 1000)

\* Standard gravity, m/s^2.
G == Dec(980665, 100000)

\* Gas constant of dry air.
R_DRY == Dec(28705, 100)

\* Gas constant of water vapour.
R_VAP == Dec(461495, 1000)

\* Ratio of specific heats.
GAMMA == Dec(14, 10)

\* self.temperature_c + 273.15.
kelvin(a) == Add[a.temperature_c, Dec(27315, 100)]

\* Magnus-Tetens saturation vapour pressure, hPa.
saturation_hpa(tc) ==
    Mul[Dec(6112, 1000),
        Exp(Div[Mul[Dec(1767, 100), tc], Add[tc, Dec(2435, 10)]])]

\* rho from the partial pressures in Pa.
density_of(pd_pa, e_pa, t_k) ==
    Add[Div[pd_pa, Mul[R_DRY, t_k]], Div[e_pa, Mul[R_VAP, t_k]]]

\* The vapour pressure in Pa at relative humidity humidity_pct.
vapour_pa(a) ==
    Mul[Mul[Div[Clamp(a.humidity_pct, Zero, FromInt(100)), FromInt(100)],
            saturation_hpa(a.temperature_c)],
        FromInt(100)]

\* Atmos::air_density.
air_density(a) ==
    Only({density_of(FMax(Sub[Mul[a.pressure_hpa, FromInt(100)], e_pa], Zero),
                     e_pa, kelvin(a)) : e_pa \in {vapour_pa(a)}})

\* Atmos::speed_of_sound.
speed_of_sound(a) == Sqrt(Mul[Mul[GAMMA, R_DRY], kelvin(a)])

\* The struct State of the solver.
PointState(t_, x_, y_, z_, vx_, vy_, vz_, speed_) ==
    [t |-> t_, x |-> x_, y |-> y_, z |-> z_, vx |-> vx_, vy |-> vy_,
     vz |-> vz_, speed |-> speed_]

\* What integrate_path computes once per call: density ratio, speed of
\* sound and the wind components.
path_frame(in) ==
    Only({[rho_ratio |-> FMax(Div[air_density(in.env), RHO0], Dec(1, 100)),
           a_sound |-> speed_of_sound(in.env),
           wx |-> Mul[in.wind_speed, Cos(wa)],
           wz |-> Mul[in.wind_speed, Sin(wa)]] :
             wa \in {to_radians(in.wind_angle_deg)}})

\* The state integrate_path starts from.
path_start(in, theta) ==
    PointState(Zero, Zero, Div[in.sight_height_cm, FromInt(100)], Zero,
               Mul[in.muzzle_velocity, Cos(theta)],
               Mul[in.muzzle_velocity, Sin(theta)], Zero, in.muzzle_velocity)

\* (inputs.drag_fn)(mach): the callers here pass functions that return the
\* same value at every Mach number, as flat_drag of the crate's test does.
drag_fn(in, mach) == in.drag_fn

\* The accelerations of deriv from the air-relative velocity.
accelerations(k, vrx, vry, vrz, vr) ==
    <<Mul[Mul[Neg(k), vrx], vr],
      Sub[Neg(G), Mul[Mul[k, vry], vr]],
      Mul[Mul[Neg(k), vrz], vr]>>

\* sqrt(vrx^2 + vry^2 + vrz^2).max(1e-6).
relative_speed(vrx, vry, vrz) ==
    FMax(Sqrt(Add[Add[Mul[vrx, vrx], Mul[vry, vry]], Mul[vrz, vrz]]), Micro)

\* deriv with the air-relative velocity at hand.
deriv_of(in, fr, st, vrx, vry, vrz, vr) ==
    <<st.vx, st.vy, st.vz>>
        \o accelerations(Div[Mul[fr.rho_ratio, drag_fn(in, Div[vr, fr.a_sound])],
                             in.bc],
                         vrx, vry, vrz, vr)

\* The closure deriv of integrate_path: (vx, vy, vz, ax, ay, az).
deriv(in, fr, st) ==
    Only({Only({deriv_of(in, fr, st, v[1], v[2], v[3], vr) :
                  vr \in {relative_speed(v[1], v[2], v[3])}}) :
            v \in {<<Sub[st.vx, fr.wx], st.vy, Sub[st.vz, fr.wz]>>}})

\* The stage state s + h * k of the RK4 pass, at time s.t + h.
path_stage(st, h, k) ==
    PointState(Add[st.t, h],
               Add[st.x, Mul[h, k[1]]], Add[st.y, Mul[h, k[2]]],
               Add[st.z, Mul[h, k[3]]], Add[st.vx, Mul[h, k[4]]],
               Add[st.vy, Mul[h, k[5]]], Add[st.vz, Mul[h, k[6]]], Zero)

\* k1 + 2.0*k2 + 2.0*k3 + k4 of component i.
path_blend(k1, k2, k3, k4, i) ==
    Add[Add[Add[k1[i], Mul[Two, k2[i]]], Mul[Two, k3[i]]], k4[i]]

\* |v| of the velocity just written.
speed_of(vx, vy, vz) == Sqrt(Add[Add[Mul[vx, vx], Mul[vy, vy]], Mul[vz, vz]])

\* The updated state with its speed.
path_moved(t_, x_, y_, z_, vx_, vy_, vz_) ==
    PointState(t_, x_, y_, z_, vx_, vy_, vz_, speed_of(vx_, vy_, vz_))

\* s after the `+=` lines of one pass of the loop.
path_combine(st, dt, h6, k1, k2, k3, k4) ==
    path_moved(Add[st.t, dt],
               Add[st.x, Mul[h6, path_blend(k1, k2, k3, k4, 1)]],
               Add[st.y, Mul[h6, path_blend(k1, k2, k3, k4, 2)]],
               Add[st.z, Mul[h6, path_blend(k1, k2, k3, k4, 3)]],
               Add[st.vx, Mul[h6, path_blend(k1, k2, k3, k4, 4)]],
               Add[st.vy, Mul[h6, path_blend(k1, k2, k3, k4, 5)]],
               Add[st.vz, Mul[h6, path_blend(k1, k2, k3, k4, 6)]])

\* One pass of the loop of integrate_path: the RK4 step from st.
path_step(in, fr, st) ==
    Only({Only({Only({Only({
        path_combine(st, in.dt, Div[in.dt, FromInt(6)], k1, k2, k3, k4) :
            k4 \in {deriv(in, fr, path_stage(st, in.dt, k3))}}) :
            k3 \in {deriv(in, fr, path_stage(st, Mul[Half, in.dt], k2))}}) :
            k2 \in {deriv(in, fr, path_stage(st, Mul[Half, in.dt], k1))}}) :
            k1 \in {deriv(in, fr, st)}})

\* The condition of the while loop of integrate_path.
path_cond(st, max_range) ==
    Le(st.x, max_range) /\ Lt(FromInt(50), st.speed) /\ Lt(st.t, FromInt(20))

\* The break after the push: 50 m below the line of sight.
path_break(st) == Lt(st.y, FromInt(-50))

\* The loop of integrate_path from the states pushed so far.
RECURSIVE path_loop(_, _, _, _)
path_loop(in, fr, out_, max_range) ==
    IF ~path_cond(out_[Len(out_)], max_range) THEN out_
    ELSE Only({IF path_break(n) THEN Append(out_, n)
               ELSE path_loop(in, fr, Append(out_, n), max_range) :
                 n \in {path_step(in, fr, out_[Len(out_)])}})

\* (max_range / (muzzle_velocity * dt)).ceil(), the capacity before `+ 8`.
path_ceil(in, max_range) ==
    Ceil(Div[max_range, Mul[in.muzzle_velocity, in.dt]])

\* size_of::<State>(): 8 f64 fields.
StateBytes == 64

\* TRUE when `as usize + 8` overflows: a panic on a build with overflow
\* checks, a capacity of 7 on one without.
path_capacity_wraps(in, max_range) == saturates(path_ceil(in, max_range))

\* TRUE when Vec::with_capacity panics on every build: more than
\* isize::MAX bytes.
path_capacity_panics(in, max_range) ==
    /\ ~path_capacity_wraps(in, max_range)
    /\ Lt(Div[<<MLo, 63 - (P - 1)>>, FromInt(StateBytes)],
          Add[as_usize(path_ceil(in, max_range)), FromInt(8)])

\* integrate_path when the allocation succeeds.
integrate_path(in, theta, max_range) ==
    path_loop(in, path_frame(in), <<path_start(in, theta)>>, max_range)

\* s.x.partial_cmp(&r): "none" when either is NaN.
partial_cmp(x, r) ==
    IF IsNaN(x) \/ IsNaN(r) THEN "none"
    ELSE IF LtOrd(x, r) THEN "less" ELSE IF x = r THEN "equal" ELSE "greater"

\* The last comparison of binary_search_by, at base: Ok(base) or Err.
search_end(traj, r, base) ==
    Only({[panic |-> c = "none",
           idx |-> IF c = "less" THEN base + 1 ELSE base] :
            c \in {partial_cmp(traj[base + 1].x, r)}})

\* slice::binary_search_by over traj[base .. base + size], indices from 0.
RECURSIVE search_loop(_, _, _, _)
search_loop(traj, r, base, size) ==
    IF size <= 1 THEN search_end(traj, r, base)
    ELSE Only({IF c = "none" THEN [panic |-> TRUE, idx |-> 0]
               ELSE search_loop(traj, r,
                                IF c = "greater" THEN base
                                ELSE base + (size \div 2),
                                size - (size \div 2)) :
                 c \in {partial_cmp(traj[base + (size \div 2) + 1].x, r)}})

\* a.f + u*(b.f - a.f).
lerp(a, b, u) == Add[a, Mul[u, Sub[b, a]]]

\* The state interpolated between a and b at range r.
interpolated(a, b, r, u) ==
    PointState(lerp(a.t, b.t, u), r, lerp(a.y, b.y, u), lerp(a.z, b.z, u),
               lerp(a.vx, b.vx, u), lerp(a.vy, b.vy, u), lerp(a.vz, b.vz, u),
               lerp(a.speed, b.speed, u))

\* u = (r - a.x) / (b.x - a.x).max(1e-9).
lerp_u(a, b, r) == Div[Sub[r, a.x], FMax(Sub[b.x, a.x], Nano)]

\* The state sample_at_range returns for the index the search found.
sample_at_index(traj, r, idx) ==
    IF idx = 0 THEN traj[1]
    ELSE IF idx >= Len(traj) THEN traj[Len(traj)]
    ELSE interpolated(traj[idx], traj[idx + 1], r,
                      lerp_u(traj[idx], traj[idx + 1], r))

\* sample_at_range: none (None), some (Some(s)) or panic (the unwrap of
\* partial_cmp on a NaN).
sample_at_range(traj, r) ==
    IF Len(traj) = 0 \/ Lt(r, traj[1].x) THEN [kind |-> "none"]
    ELSE Only({IF f.panic THEN [kind |-> "panic"]
               ELSE [kind |-> "some", s |-> sample_at_index(traj, r, f.idx)] :
                 f \in {search_loop(traj, r, 0, Len(traj))}})

\* y_at_zero_range: the height at the zero distance, 1.0 when
\* sample_at_range returns None; panic when it or the allocation panics.
y_at_zero_range(in, theta) ==
    IF path_capacity_panics(in, in.zero_distance_m) THEN [panic |-> TRUE]
    ELSE Only({IF sm.kind = "panic" THEN [panic |-> TRUE]
               ELSE [panic |-> FALSE,
                     y |-> IF sm.kind = "some" THEN sm.s.y ELSE One] :
                 sm \in {sample_at_range(
                            integrate_path(in, theta, in.zero_distance_m),
                            in.zero_distance_m)}})

\* The widening passes allowed to the bracket of solve_zero_theta.
WidenTries == 10

\* The bisection passes of solve_zero_theta.
BisectPasses == 40

\* 1e-5, the height taken as zero.
ZeroTol == Dec(1, 100000)

\* The condition of the widening loop.
widen_cond(c) == FEq(signum(c.f_lo), signum(c.f_hi)) /\ c.tries < WidenTries

\* ranges_m folded with f64::max from 0.0, then .min(max_range_m).
RECURSIVE fold_max(_, _)
fold_max(rs, acc) ==
    IF rs = <<>> THEN acc ELSE fold_max(Tail(rs), FMax(acc, Head(rs)))

\* The range the table's trajectory is integrated to.
target_max(in, rs) == FMin(fold_max(rs, Zero), in.max_range_m)

\* 1 mil in MOA.
MoaPerMil == Dec(3437747, 1000000)

\* The Row pushed for range r from the sampled state.
Row(r, sm) ==
    Only({[range_m |-> r, tof |-> sm.t, impact_velocity |-> sm.speed,
           drop_m |-> Neg(sm.y), drift_m |-> sm.z, hold_mil |-> hm,
           hold_moa |-> Mul[hm, MoaPerMil]] :
            hm \in {Mul[Div[Neg(sm.y), r], FromInt(1000)]}})

\* A call at its first line.
table_call(in, rs) ==
    [pc |-> "entry", in |-> in, ranges |-> rs, lo |-> Zero, hi |-> Zero,
     f_lo |-> Zero, f_hi |-> Zero, tries |-> 0, pass |-> 0, theta |-> Zero,
     traj |-> <<>>, i |-> 1, out |-> <<>>]

\* The two asserts of solve_table_at_ranges.
asserts_hold(in) == Lt(Zero, in.bc) /\ Lt(Zero, in.dt)

\* The bracket [lo, hi] with the heights at its ends; the call panics when
\* either evaluation does.
bracketed(c, lo_, hi_, n) ==
    Only({IF fs[1].panic \/ fs[2].panic THEN [c EXCEPT !.pc = "panic"]
          ELSE [c EXCEPT !.pc = "widen", !.lo = lo_, !.hi = hi_,
                         !.f_lo = fs[1].y, !.f_hi = fs[2].y, !.tries = n] :
            fs \in {<<y_at_zero_range(c.in, lo_), y_at_zero_range(c.in, hi_)>>}})

\* solve_table_at_ranges up to the first bracket of solve_zero_theta.
TableEnter ==
    /\ table.pc = "entry"
    /\ table' =
         IF ~asserts_hold(table.in) THEN [table EXCEPT !.pc = "panic"]
         ELSE IF table.ranges = <<>> THEN [table EXCEPT !.pc = "done"]
         ELSE bracketed(table, Neg(to_radians(FromInt(5))),
                        to_radians(FromInt(5)), 0)
    /\ UNCHANGED <<inputs, pc, t, s, out, steps, cap, bore, calls, log, other>>
    /\ UNCHANGED <<lookup, probe>>

\* `as usize + 8` on a build with overflow checks, in the first
\* integrate_path of the search or in the one of the table.
TableOverflow ==
    /\ \/ /\ table.pc = "entry" /\ asserts_hold(table.in)
          /\ table.ranges # <<>>
          /\ path_capacity_wraps(table.in, table.in.zero_distance_m)
       \/ /\ table.pc = "integrate"
          /\ path_capacity_wraps(table.in, target_max(table.in, table.ranges))
    /\ table' = [table EXCEPT !.pc = "panic"]
    /\ UNCHANGED <<inputs, pc, t, s, out, steps, cap, bore, calls, log, other>>
    /\ UNCHANGED <<lookup, probe>>

\* One pass of the widening loop.
TableWiden ==
    /\ table.pc = "widen" /\ widen_cond(table)
    /\ table' = bracketed(table, Mul[table.lo, Two], Mul[table.hi, Two],
                          table.tries + 1)
    /\ UNCHANGED <<inputs, pc, t, s, out, steps, cap, bore, calls, log, other>>
    /\ UNCHANGED <<lookup, probe>>

\* The bracket after a pass of the bisection that did not return.
halved(c, mid, f_mid) ==
    IF FEq(signum(f_mid), signum(c.f_lo))
    THEN [c EXCEPT !.pc = "bisect", !.lo = mid, !.f_lo = f_mid,
                   !.pass = c.pass + 1]
    ELSE [c EXCEPT !.pc = "bisect", !.hi = mid, !.f_hi = f_mid,
                   !.pass = c.pass + 1]

\* One pass of the bisection from mid and the height there.
bisected(c, mid, f) ==
    IF f.panic THEN [c EXCEPT !.pc = "panic"]
    ELSE IF Lt(FAbs(f.y), ZeroTol)
    THEN [c EXCEPT !.pc = "integrate", !.theta = mid]
    ELSE halved(c, mid, f.y)

\* 0.5 * (lo + hi).
midpoint(c) == Mul[Half, Add[c.lo, c.hi]]

\* One pass of the bisection: the midpoint is the answer, or replaces lo or hi.
TableBisect ==
    /\ \/ table.pc = "widen" /\ ~widen_cond(table)
       \/ table.pc = "bisect"
    /\ table.pass < BisectPasses
    /\ \E mid \in {midpoint(table)} :
          table' = bisected(table, mid, y_at_zero_range(table.in, mid))
    /\ UNCHANGED <<inputs, pc, t, s, out, steps, cap, bore, calls, log, other>>
    /\ UNCHANGED <<lookup, probe>>

\* The bisection ran out of passes: solve_zero_theta returns the midpoint.
TableFallThrough ==
    /\ table.pc = "bisect" /\ table.pass = BisectPasses
    /\ table' = [table EXCEPT !.pc = "integrate", !.theta = midpoint(table)]
    /\ UNCHANGED <<inputs, pc, t, s, out, steps, cap, bore, calls, log, other>>
    /\ UNCHANGED <<lookup, probe>>

\* The one trajectory the rows are read from.
TableIntegrate ==
    /\ table.pc = "integrate"
    /\ \E mx \in {target_max(table.in, table.ranges)} :
          table' =
            IF path_capacity_panics(table.in, mx)
            THEN [table EXCEPT !.pc = "panic"]
            ELSE [table EXCEPT !.pc = "rows",
                               !.traj = integrate_path(table.in, table.theta, mx)]
    /\ UNCHANGED <<inputs, pc, t, s, out, steps, cap, bore, calls, log, other>>
    /\ UNCHANGED <<lookup, probe>>

\* The call after the pass of the for loop over ranges_m that reads r.
rowed(c, r) ==
    IF Le(r, Zero) THEN [c EXCEPT !.i = c.i + 1]
    ELSE Only({IF sm.kind = "panic" THEN [c EXCEPT !.pc = "panic"]
               ELSE IF sm.kind = "none" THEN [c EXCEPT !.i = c.i + 1]
               ELSE [c EXCEPT !.i = c.i + 1, !.out = Append(c.out, Row(r, sm.s))] :
                 sm \in {sample_at_range(c.traj, r)}})

\* One pass of the row loop of solve_table_at_ranges.
TableRow ==
    /\ table.pc = "rows" /\ table.i <= Len(table.ranges)
    /\ table' = rowed(table, table.ranges[table.i])
    /\ UNCHANGED <<inputs, pc, t, s, out, steps, cap, bore, calls, log, other>>
    /\ UNCHANGED <<lookup, probe>>

\* solve_table_at_ranges returns: at once for an empty request, or the rows.
TableReturn ==
    /\ table.pc = "rows" /\ table.i > Len(table.ranges)
    /\ table' = [table EXCEPT !.pc = "done"]
    /\ UNCHANGED <<inputs, pc, t, s, out, steps, cap, bore, calls, log, other>>
    /\ UNCHANGED <<lookup, probe>>

\* ------------------------------------------- calls of solve_table_at_ranges
\* The atmosphere of the crate's test.
TestAtmos ==
    [temperature_c |-> FromInt(15), pressure_hpa |-> FromInt(1013),
     humidity_pct |-> FromInt(50), altitude_m |-> Zero]

\* The inputs of runs_and_monotonic_x, flat_drag returning 0.5.
TestInputs ==
    [bc |-> Dec(25, 100), muzzle_velocity |-> FromInt(800),
     sight_height_cm |-> Dec(35, 10), zero_distance_m |-> FromInt(100),
     env |-> TestAtmos, wind_speed |-> FromInt(4),
     wind_angle_deg |-> FromInt(90), dt |-> Dec(2, 1000),
     max_range_m |-> FromInt(1200), drag_fn |-> Half]

\* The test's rifle with a drag function of the size of a real one, a
\* coarse step and a table limited to 150 m.
RangeInputs(drag) ==
    [TestInputs EXCEPT !.drag_fn = drag, !.dt = Dec(5, 100),
                       !.max_range_m = FromInt(150)]

\* The calls of solve_table_at_ranges: the crate's test, the same with a
\* drag function the step size can follow, and the degenerate arguments.
TableCalls ==
    {table_call(TestInputs, <<FromInt(100), FromInt(300), FromInt(600)>>),
     table_call(RangeInputs(Dec(1, 10000)), <<FromInt(100), FromInt(200)>>),
     table_call(RangeInputs(Dec(1, 10000)),
                <<FromInt(120), Zero, FromInt(-50), FromInt(40)>>),
     table_call(RangeInputs(Zero), <<>>),
     table_call([RangeInputs(Zero) EXCEPT !.bc = Zero], <<FromInt(100)>>),
     table_call([RangeInputs(Zero) EXCEPT !.dt = Zero], <<FromInt(100)>>),
     table_call([RangeInputs(Zero) EXCEPT !.zero_distance_m = Dec(1, 10)],
                <<FromInt(50)>>),
     table_call([RangeInputs(Zero) EXCEPT !.muzzle_velocity = Zero],
                <<FromInt(100)>>)}

\* The 6DoF driver at rest while the point-mass solver runs.
AtRest == InitWith({BasicCase}, {Idle})

\* One call of solve_table_at_ranges is about to be made.
TableInit == AtRest /\ table \in TableCalls /\ lookup = Idle /\ probe = Idle

\* The steps of solve_table_at_ranges.
TableNext ==
    \/ TableEnter
    \/ TableOverflow
    \/ TableWiden
    \/ TableBisect
    \/ TableFallThrough
    \/ TableIntegrate
    \/ TableRow
    \/ TableReturn

\* One call of solve_table_at_ranges.
TableSpec == TableInit /\ [][TableNext]_vars

\* ------------------------------------------------------- ballistics-models
\* One power-law segment, valid on [v_min_fps, v_max_fps).
Seg(v_min_fps, v_max_fps, a, m) ==
    [v_min_fps |-> v_min_fps, v_max_fps |-> v_max_fps, a |-> a, m |-> m]

\* The G1 segments, high to low (fps, 1/ft).
G1 ==
    <<
    Seg(FromInt(4230), PosInf, Dec(147740, 1000000000), Dec(19565, 10000)),
    Seg(FromInt(3680), FromInt(4230), Dec(192034, 1000000000), Dec(1925, 1000)),
    Seg(FromInt(3450), FromInt(3680), Dec(289475, 1000000000), Dec(1875, 1000)),
    Seg(FromInt(3295), FromInt(3450), Dec(434991, 1000000000), Dec(1825, 1000)),
    Seg(FromInt(3130), FromInt(3295), Dec(652042, 1000000000), Dec(1775, 1000)),
    Seg(FromInt(2960), FromInt(3130), Dec(974807, 1000000000), Dec(1725, 1000)),
    Seg(FromInt(2830), FromInt(2960), Dec(145372, 100000000), Dec(1675, 1000)),
    Seg(FromInt(2680), FromInt(2830), Dec(216289, 100000000), Dec(1625, 1000)),
    Seg(FromInt(2460), FromInt(2680), Dec(320956, 100000000), Dec(1575, 1000)),
    Seg(FromInt(2225), FromInt(2460), Dec(497751, 100000000), Dec(1525, 1000)),
    Seg(FromInt(2015), FromInt(2225), Dec(751358, 100000000), Dec(1475, 1000)),
    Seg(FromInt(1890), FromInt(2015), Dec(114295, 10000000), Dec(1425, 1000)),
    Seg(FromInt(1810), FromInt(1890), Dec(183842, 10000000), Dec(1375, 1000)),
    Seg(FromInt(1730), FromInt(1810), Dec(254902, 10000000), Dec(1325, 1000)),
    Seg(FromInt(1595), FromInt(1730), Dec(368826, 10000000), Dec(1275, 1000)),
    Seg(FromInt(1520), FromInt(1595), Dec(504689, 10000000), Dec(1225, 1000)),
    Seg(FromInt(1420), FromInt(1520), Dec(697360, 10000000), Dec(1175, 1000)),
    Seg(FromInt(1360), FromInt(1420), Dec(949368, 10000000), Dec(1125, 1000)),
    Seg(FromInt(1315), FromInt(1360), Dec(127907, 1000000), Dec(1075, 1000)),
    Seg(FromInt(1280), FromInt(1315), Dec(183, 1000), Dec(1025, 1000)),
    Seg(FromInt(1220), FromInt(1280), Dec(262, 1000), Dec(975, 1000)),
    Seg(FromInt(1185), FromInt(1220), Dec(37, 100), Dec(925, 1000)),
    Seg(FromInt(1150), FromInt(1185), Dec(5, 10), Dec(875, 1000)),
    Seg(FromInt(1100), FromInt(1150), Dec(69, 100), Dec(825, 1000)),
    Seg(FromInt(1060), FromInt(1100), Dec(970000, 1000000), Dec(775, 1000)),
    Seg(FromInt(1025), FromInt(1060), Dec(136, 100), Dec(725, 1000)),
    Seg(FromInt(980), FromInt(1025), Dec(194, 100), Dec(675, 1000)),
    Seg(FromInt(940), FromInt(980), Dec(275, 100), Dec(625, 1000)),
    Seg(FromInt(905), FromInt(940), Dec(39, 10), Dec(575, 1000)),
    Seg(FromInt(860), FromInt(905), Dec(55, 10), Dec(525, 1000)),
    Seg(FromInt(810), FromInt(860), Dec(77, 10), Dec(475, 1000)),
    Seg(FromInt(780), FromInt(810), Dec(105, 10), Dec(425, 1000)),
    Seg(FromInt(750), FromInt(780), Dec(149, 10), Dec(375, 1000)),
    Seg(FromInt(700), FromInt(750), Dec(218, 10), Dec(325, 1000)),
    Seg(FromInt(640), FromInt(700), Dec(314, 10), Dec(275, 1000)),
    Seg(FromInt(600), FromInt(640), Dec(453, 10), Dec(225, 1000)),
    Seg(FromInt(550), FromInt(600), Dec(662, 10), Dec(175, 1000)),
    Seg(FromInt(500), FromInt(550), Dec(946, 10), Dec(125, 1000)),
    Seg(Zero, FromInt(500), FromInt(140), Dec(75, 1000))
    >>

\* The G7 segments, high to low (fps, 1/ft).
G7 ==
    <<
    Seg(FromInt(4230), PosInf, Dec(513, 10000000), Dec(1981, 1000)),
    Seg(FromInt(3680), FromInt(4230), Dec(649, 10000000), Dec(1942, 1000)),
    Seg(FromInt(3450), FromInt(3680), Dec(9748, 100000000), Dec(1907, 1000)),
    Seg(FromInt(3295), FromInt(3450), Dec(1453, 10000000), Dec(1871, 1000)),
    Seg(FromInt(3130), FromInt(3295), Dec(2162, 10000000), Dec(1835, 1000)),
    Seg(FromInt(2960), FromInt(3130), Dec(321, 1000000), Dec(1799, 1000)),
    Seg(FromInt(2830), FromInt(2960), Dec(4978, 10000000), Dec(1763, 1000)),
    Seg(FromInt(2680), FromInt(2830), Dec(7514, 10000000), Dec(1726, 1000)),
    Seg(FromInt(2460), FromInt(2680), Dec(1143, 1000000), Dec(169, 100)),
    Seg(FromInt(2225), FromInt(2460), Dec(1838, 1000000), Dec(1653, 1000)),
    Seg(FromInt(2015), FromInt(2225), Dec(2549, 1000000), Dec(1617, 1000)),
    Seg(FromInt(1890), FromInt(2015), Dec(3688, 1000000), Dec(158, 100)),
    Seg(FromInt(1810), FromInt(1890), Dec(5047, 1000000), Dec(1544, 1000)),
    Seg(FromInt(1730), FromInt(1810), Dec(6974, 1000000), Dec(1507, 1000)),
    Seg(FromInt(1595), FromInt(1730), Dec(9494, 1000000), Dec(1471, 1000)),
    Seg(FromInt(1520), FromInt(1595), Dec(1279, 100000), Dec(1434, 1000)),
    Seg(FromInt(1420), FromInt(1520), Dec(183, 10000), Dec(1398, 1000)),
    Seg(FromInt(1360), FromInt(1420), Dec(262, 10000), Dec(1361, 1000)),
    Seg(FromInt(1315), FromInt(1360), Dec(37, 1000), Dec(1325, 1000)),
    Seg(FromInt(1280), FromInt(1315), Dec(5, 100), Dec(1288, 1000)),
    Seg(FromInt(1220), FromInt(1280), Dec(69, 1000), Dec(1252, 1000)),
    Seg(FromInt(1185), FromInt(1220), Dec(97, 1000), Dec(1215, 1000)),
    Seg(FromInt(1150), FromInt(1185), Dec(136, 1000), Dec(1179, 1000)),
    Seg(FromInt(1100), FromInt(1150), Dec(194, 1000), Dec(1142, 1000)),
    Seg(FromInt(1060), FromInt(1100), Dec(275, 1000), Dec(1106, 1000)),
    Seg(FromInt(1025), FromInt(1060), Dec(39, 100), Dec(1069, 1000)),
    Seg(FromInt(980), FromInt(1025), Dec(55, 100), Dec(1033, 1000)),
    Seg(FromInt(940), FromInt(980), Dec(77, 100), Dec(996, 1000)),
    Seg(FromInt(905), FromInt(940), Dec(105, 100), Dec(96, 100)),
    Seg(FromInt(860), FromInt(905), Dec(149, 100), Dec(923, 1000)),
    Seg(FromInt(810), FromInt(860), Dec(218, 100), Dec(887, 1000)),
    Seg(FromInt(780), FromInt(810), Dec(314, 100), Dec(85, 100)),
    Seg(FromInt(750), FromInt(780), Dec(453, 100), Dec(814, 1000)),
    Seg(FromInt(700), FromInt(750), Dec(662, 100), Dec(777, 1000)),
    Seg(FromInt(640), FromInt(700), Dec(946, 100), Dec(741, 1000)),
    Seg(FromInt(600), FromInt(640), FromInt(14), Dec(704, 1000)),
    Seg(FromInt(550), FromInt(600), Dec(203, 10), Dec(668, 1000)),
    Seg(FromInt(500), FromInt(550), Dec(295, 10), Dec(631, 1000)),
    Seg(Zero, FromInt(500), Dec(424, 10), Dec(595, 1000))
    >>

\* TableModel::g1().table_fps and TableModel::g7().table_fps by kind.
table_fps(kind) == IF kind = "G1" THEN G1 ELSE G7

\* 1 ft in metres.
FootInMetres == Dec(3048, 10000)

\* m/s -> fps.
mps_to_fps(v) == Div[v, FootInMetres]

\* The test of find_seg with the lower bound excluded.
seg_holds_open(seg, v_fps) ==
    Lt(seg.v_min_fps, v_fps) /\ Lt(v_fps, seg.v_max_fps)

\* The test of find_seg: v_fps >= seg.v_min_fps && v_fps < seg.v_max_fps.
seg_holds(seg, v_fps) ==
    Le(seg.v_min_fps, v_fps) /\ Lt(v_fps, seg.v_max_fps)

\* The linear scan of find_seg from segment k: the index of the first
\* segment that holds v_fps, or the last one as the fallback.
RECURSIVE scan_from(_, _, _)
scan_from(tb, v_fps, k) ==
    IF k > Len(tb) THEN [idx |-> Len(tb), matched |-> FALSE]
    ELSE IF seg_holds(tb[k], v_fps) THEN [idx |-> k, matched |-> TRUE]
    ELSE scan_from(tb, v_fps, k + 1)

\* find_seg: the segment returned, and whether the loop returned it.
find_seg(tb, v_fps) == scan_from(tb, v_fps, 1)

\* f64::is_finite.
is_finite(x) == ~IsSpecial(x)

\* i_si returns 0.0 before any lookup.
returns_zero(v_mps) == ~is_finite(v_mps) \/ Le(v_mps, Zero)

\* i_per_ft / ft_per_m for the segment found.
i_of_seg(seg, v_fps) ==
    Div[Mul[seg.a, Powf(v_fps, seg.m)], Div[One, FootInMetres]]

\* A query of the table of kind: find_seg(v) or i_si(v).
query(fn, kind, v) == [pc |-> fn, fn |-> fn, kind |-> kind, v |-> v]

\* What a query has returned: v_fps is the speed find_seg was given, hit
\* what it found; early is TRUE when i_si returned 0.0 without a lookup.
returned(q, early, v_fps, hit, i) ==
    [pc |-> "returned", fn |-> q.fn, kind |-> q.kind, v |-> q.v,
     early |-> early, v_fps |-> v_fps, hit |-> hit, i |-> i]

\* i_si after v_fps is bound.
i_si_of(q, v_fps) ==
    Only({returned(q, FALSE, v_fps, hit,
                   i_of_seg(table_fps(q.kind)[hit.idx], v_fps)) :
            hit \in {find_seg(table_fps(q.kind), v_fps)}})

\* i_si(v_mps).
i_si(q) ==
    IF returns_zero(q.v)
    THEN returned(q, TRUE, Zero, [idx |-> 0, matched |-> FALSE], Zero)
    ELSE i_si_of(q, mps_to_fps(q.v))

\* A call of find_seg.
FindSeg ==
    /\ lookup.pc = "find_seg"
    /\ lookup' = returned(lookup, FALSE, lookup.v,
                          find_seg(table_fps(lookup.kind), lookup.v), Zero)
    /\ UNCHANGED <<inputs, pc, t, s, out, steps, cap, bore, calls, log, other>>
    /\ UNCHANGED <<table, probe>>

\* A call of i_si (retardation_v).
ISi ==
    /\ lookup.pc = "i_si"
    /\ lookup' = i_si(lookup)
    /\ UNCHANGED <<inputs, pc, t, s, out, steps, cap, bore, calls, log, other>>
    /\ UNCHANGED <<table, probe>>

\* The largest finite value.
MaxFinite == <<MHi - 1, EMax>>

\* The speeds in fps given to find_seg: every bound of the table, the
\* middle of a segment, below zero, infinite and NaN.
SpeedsFps ==
    {G1[k].v_min_fps : k \in DOMAIN G1}
        \cup {FromInt(2700), FromInt(-1), PosInf, NaN}

\* The speeds in m/s given to i_si: those of the crate's tests, the bound
\* 500 fps, the largest finite speed, and the speeds i_si answers with 0.
SpeedsMps ==
    {FromInt(800), FromInt(300), FromInt(900), FromInt(820),
     Mul[FromInt(500), FootInMetres], MaxFinite,
     Zero, FromInt(-1), PosInf, NaN}

\* The calls of find_seg and i_si, on each table.
Queries ==
    {query("find_seg", kind, v) : kind \in {"G1", "G7"}, v \in SpeedsFps}
        \cup {query("i_si", kind, v) : kind \in {"G1", "G7"}, v \in SpeedsMps}

\* One call of find_seg or i_si is about to be made.
LookupInit == AtRest /\ table = Idle /\ probe = Idle /\ lookup \in Queries

\* The call is made.
LookupNext == FindSeg \/ ISi

\* One call of find_seg or i_si.
LookupSpec == LookupInit /\ [][LookupNext]_vars

\* ------------------------------------------------- dynamics, side by side
\* f_body of dynamics under an AeroModel whose c_magnus returns c_mag and
\* whose other methods are those of DefaultAeroApprox.
body_force_with(st, p, fl, v_b, c_mag) ==
    body_force_sum(Mul[Neg(fl.qbar), p.area], Mul[fl.qbar, p.area], fl,
                   magnus_force(c_mag, Vec3_cross(st.w, v_b)))

\* One question to dynamics: a state, a projectile, an environment and a
\* gravity, with a second gravity, a second angular rate and a second
\* Magnus factor to set beside them.
asked(st, p, e, g, g2, w2, c2) ==
    [pc |-> "asked", s |-> st, proj |-> p, env |-> e, g |-> g, g2 |-> g2,
     w2 |-> w2, c2 |-> c2]

\* The answers: the flow numbers, f_body as dynamics forms it, f_body at
\* the second angular rate and at the second Magnus factor, and the
\* derivative under each gravity.
answered(a, fl, v_b) ==
    [pc |-> "answered", s |-> a.s, proj |-> a.proj, env |-> a.env, g |-> a.g,
     g2 |-> a.g2, w2 |-> a.w2, c2 |-> a.c2, fl |-> fl,
     f_body |-> body_force(a.s, a.proj, fl, v_b),
     f_body_w2 |-> body_force([a.s EXCEPT !.w = a.w2], a.proj, fl, v_b),
     f_body_c2 |-> body_force_with(a.s, a.proj, fl, v_b, a.c2),
     d |-> dynamics_of_flow(a.s, a.proj, a.g, fl, v_b),
     d2 |-> dynamics_of_flow(a.s, a.proj, a.g2, fl, v_b)]

\* dynamics evaluated at the state asked about.
Evaluate ==
    /\ probe.pc = "asked"
    /\ \E fl \in {flow_numbers(probe.s, probe.env)},
          v_b \in {body_velocity(probe.s)} :
          probe' = answered(probe, fl, v_b)
    /\ UNCHANGED <<inputs, pc, t, s, out, steps, cap, bore, calls, log, other>>
    /\ UNCHANGED <<table, lookup>>

\* Projectiles of 10 g, 1 kg and 2 kg.
ProbeProjectiles ==
    {projectile_cylindrical(m, Dec(782, 100000), Dec(35, 1000), Zero) :
        m \in {Dec(10, 1000), One, Two}}

\* States in flight: level and nose down, two velocities, three angular
\* rates.
ProbeStates ==
    {State(Vec3_zero, v, q, w) :
        v \in {Vec3(FromInt(800), Zero, Zero),
               Vec3(FromInt(300), FromInt(10), FromInt(-5))},
        q \in {Quaternion_identity,
               q_from_axis_angle(Vec3(Zero, One, Zero), Dec(1, 10))},
        w \in {Vec3_zero, Vec3(FromInt(4000), Zero, Zero),
               Vec3(FromInt(2000), FromInt(3), FromInt(-2))}}

\* Standard gravity beside none and beside the Moon's.
ProbeGravities ==
    {<<[g |-> Neg(AtmosG)], [g |-> Zero]>>,
     <<[g |-> Neg(AtmosG)], [g |-> Dec(-162, 100)]>>}

\* The evaluations of dynamics asked for.
Questions ==
    {asked(st, p, e, gs[1], gs[2], Vec3(FromInt(1000), FromInt(-4), One),
           Half) :
        st \in ProbeStates, p \in ProbeProjectiles,
        e \in {StandardEnvironment, Vacuum}, gs \in ProbeGravities}

\* One evaluation of dynamics is about to be made.
ProbeInit == AtRest /\ table = Idle /\ lookup = Idle /\ probe \in Questions

\* The evaluation is made.
ProbeNext == Evaluate

\* One evaluation of dynamics.
ProbeSpec == ProbeInit /\ [][ProbeNext]_vars

\* ------------------------------------------------ solve_table_at_ranges
\* The requested ranges above zero, in the order requested.
RECURSIVE positive(_)
positive(rs) ==
    IF rs = <<>> THEN <<>>
    ELSE IF Lt(Zero, Head(rs)) THEN <<Head(rs)>> \o positive(Tail(rs))
    ELSE positive(Tail(rs))

\* The range_m of the rows, in the order returned.
RowRanges(rows) == [j \in DOMAIN rows |-> rows[j].range_m]

\* C21: a call of solve_table_at_ranges with bc > 0 and dt > 0 returns, and
\* what it returns has exactly one row for every requested range r > 0, in
\* the order requested and with range_m = r; the ranges r <= 0 have no row
\* and an empty request has an empty result.
C21_OneRowPerPositiveRange ==
    /\ table.pc = "panic" => ~asserts_hold(table.in)
    /\ table.pc = "done" => RowRanges(table.out) = positive(table.ranges)

\* C21: the calls that return do return one row for every range above zero.
C21_ReturnedRowsMatch ==
    table.pc = "done" => RowRanges(table.out) = positive(table.ranges)

\* C21: a call has returned rows for a request that holds ranges <= 0.
C21_ReturnedSkippingNonPositive ==
    /\ table.pc = "done" /\ Len(table.out) = 2 /\ Len(table.ranges) = 4

\* TRUE when row is the interpolation at x = row.range_m between two
\* consecutive states of traj that enclose it.
Enclosed(row, traj) ==
    \E k \in 1 .. (Len(traj) - 1) :
        /\ Le(traj[k].x, row.range_m) /\ Le(row.range_m, traj[k + 1].x)
        /\ \E u \in {lerp_u(traj[k], traj[k + 1], row.range_m)} :
              /\ row.tof = lerp(traj[k].t, traj[k + 1].t, u)
              /\ row.impact_velocity = lerp(traj[k].speed, traj[k + 1].speed, u)
              /\ row.drop_m = Neg(lerp(traj[k].y, traj[k + 1].y, u))
              /\ row.drift_m = lerp(traj[k].z, traj[k + 1].z, u)

\* C22: every row returned reports the trajectory at x = range_m: its time
\* of flight, impact speed, drop and drift are the linear interpolation
\* between two consecutive integrated states a, b with a.x <= range_m <= b.x,
\* also for a range beyond max_range_m or beyond where integrate_path
\* stopped.
C22_RowsInterpolateAtRange ==
    table.pc = "done" =>
        \A j \in DOMAIN table.out : Enclosed(table.out[j], table.traj)

\* C22: the rows for ranges the integrated trajectory reaches are such
\* interpolations.
C22_ReachedRowsInterpolate ==
    table.pc = "done" =>
        \A j \in DOMAIN table.out :
            Le(table.out[j].range_m, table.traj[Len(table.traj)].x)
                => Enclosed(table.out[j], table.traj)

\* C22: a row has been returned for a range beyond the last integrated state.
C22_RowBeyondTrajectory ==
    /\ table.pc = "done"
    /\ \E j \in DOMAIN table.out :
          Lt(table.traj[Len(table.traj)].x, table.out[j].range_m)

\* ------------------------------------------- orientations inside rk4_step
\* The orientation of the stage state of step i that follows k_j: the one
\* dynamics rotates with when it computes k_(j+1).
StageQ(i, j) ==
    Quaternion_add(out[i].state.q,
                   Quaternion_scale(log[i].ks[j].q,
                                    IF j = 3 THEN opts.dt ELSE Mul[opts.dt, Half]))

\* C23: given a unit-norm initial orientation, every orientation dynamics
\* and flow_numbers rotate with during integrate_6dof is unit-norm: the one
\* of the state each step starts from and the ones of the three
\* intermediate RK4 stage states.
C23_EveryEvaluationOnUnit ==
    IsUnit(initial.q) =>
        \A i \in DOMAIN log :
            /\ IsUnit(out[i].state.q)
            /\ \A j \in 1 .. 3 : IsUnit(StageQ(i, j))

\* C23: the orientation the first step starts from is the caller's, so it
\* is unit-norm when the caller's is.
C23_FirstEvaluationOnUnit ==
    IsUnit(initial.q) /\ Len(log) >= 1 => IsUnit(out[1].state.q)

\* ------------------------------------------------ the terms of dynamics
\* C24: changing gravity.g changes only the z-component of the velocity
\* derivative dynamics returns: the position rate, the x and y
\* accelerations, the quaternion rate and the angular acceleration are the
\* same under both gravities.
C24_GravityOnlyOnZ ==
    probe.pc = "answered" =>
        /\ probe.d.r = probe.d2.r
        /\ probe.d.v.x = probe.d2.v.x
        /\ probe.d.v.y = probe.d2.v.y
        /\ probe.d.q = probe.d2.q
        /\ probe.d.w = probe.d2.w

\* C24: the z acceleration has changed with gravity.
C24_ZChanged ==
    /\ probe.pc = "answered"
    /\ probe.g # probe.g2
    /\ probe.d.v.z # probe.d2.v.z

\* -qbar * sref * c_d at the flow numbers of the probe.
AxialDrag ==
    Mul[Mul[Neg(probe.fl.qbar), probe.proj.area],
        c_d(probe.fl.mach, probe.fl.alpha, probe.fl.beta)]

\* C25: the x-component of the body force is -qbar * S * C_D whatever the
\* angular rate, the body velocity and the Magnus factor.
C25_NoMagnusAlongBore ==
    probe.pc = "answered" =>
        /\ probe.f_body.x = AxialDrag
        /\ probe.f_body_w2.x = AxialDrag
        /\ probe.f_body_c2.x = AxialDrag

\* C25: the angular rate and the Magnus factor have changed the y or z
\* component of the body force.
C25_MagnusOnSide ==
    /\ probe.pc = "answered"
    /\ probe.f_body.y # probe.f_body_w2.y
    /\ probe.f_body.z # probe.f_body_c2.z
    /\ probe.s.w # Vec3_zero

\* C30: when the aerodynamic body force is zero, the velocity derivative
\* dynamics returns is (0, 0, gravity.g) for every positive mass.
C30_FreeFallIsG ==
    probe.pc = "answered" /\ probe.f_body = Vec3_zero
        /\ Lt(Zero, probe.proj.mass)
        => probe.d.v = Vec3(Zero, Zero, probe.g.g)

\* C30: the free-fall acceleration dynamics returns is gravity.g divided
\* by the mass.
C30_FreeFallIsGOverMass ==
    probe.pc = "answered" /\ probe.f_body = Vec3_zero
        /\ Lt(Zero, probe.proj.mass)
        => probe.d.v = Vec3(Zero, Zero, Div[probe.g.g, probe.proj.mass])

\* C30: a projectile of 10 g in free fall.
C30_LightInFreeFall ==
    /\ probe.pc = "answered" /\ probe.f_body = Vec3_zero
    /\ probe.proj.mass = Dec(10, 1000)

\* ----------------------------------------- the driver's renormalization
\* C26: the state the driver carries into the next iteration equals the
\* state rk4_step returned: normalizing the normalized orientation again
\* changes nothing, and no other field is touched.
C26_CarriedEqualsReturned ==
    \A i \in DOMAIN log : After(i) = log[i].ret

\* Quaternions a and b agree to the tolerance in every component.
CloseQuat(a, b) ==
    /\ Le(FAbs(Sub[a.w, b.w]), QuatTol) /\ Le(FAbs(Sub[a.x, b.x]), QuatTol)
    /\ Le(FAbs(Sub[a.y, b.y]), QuatTol) /\ Le(FAbs(Sub[a.z, b.z]), QuatTol)

\* C26 (as amended): the driver's renormalization changes no field of the
\* state rk4_step returned other than the orientation, and it changes a
\* unit-norm orientation by rounding only.
C26_CarriedWithinRounding ==
    \A i \in DOMAIN log :
        /\ After(i).r = log[i].ret.r
        /\ After(i).v = log[i].ret.v
        /\ After(i).w = log[i].ret.w
        /\ IsUnit(log[i].ret.q) => CloseQuat(After(i).q, log[i].ret.q)

\* C26 witness: the driver renormalized a unit-norm orientation and the
\* result differs from it in the last place.
C26_RoundedAgain ==
    \E i \in DOMAIN log :
        IsUnit(log[i].ret.q) /\ After(i).q # log[i].ret.q

\* ------------------------------------------------- the number of samples
\* A sample with t > 0 is at or below the ground.
GroundSample ==
    \E i \in Samples :
        Lt(Zero, out[i].t) /\ Le(out[i].state.r.z, opts.ground_z)

\* f64::floor.
Floor(x) == Neg(Ceil(Neg(x)))

\* min(max_steps, floor(max_time / dt) + 1), the quotient computed in f64.
ByQuotient ==
    IF Le(FromInt(opts.max_steps), Floor(Div[opts.max_time, opts.dt]))
    THEN opts.max_steps
    ELSE RoundToInt(Floor(Div[opts.max_time, opts.dt])) + 1

\* The number of sums 0, dt, dt + dt, .. (each an f64 addition to the one
\* before) that are <= max_time, counted up to n of them.
RECURSIVE sums_within(_, _, _)
sums_within(tt, n, k) ==
    IF k = n \/ ~Le(tt, opts.max_time) THEN k
    ELSE sums_within(Add[tt, opts.dt], n, k + 1)

\* The call returned, with dt > 0, max_time >= 0 and no sample with t > 0
\* on the ground.
ReturnedOnBudget ==
    /\ pc = "done" /\ Lt(Zero, opts.dt) /\ Le(Zero, opts.max_time)
    /\ ~GroundSample

C29_SampleBeforeItsStep ==
    /\ Len(log) = steps
    /\ \A i \in Samples :
          out[i].state =
            IF i = 1 THEN initial ELSE renormalized(log[i - 1].ret)
    /\ pc = "done" /\ GroundImpact => Len(out) = steps + 1
    /\ pc = "done" /\ ~GroundImpact => Len(out) = steps

\* C29 witness: a call has stopped on its budget after two steps or more
\* with its last step's state in no sample.
C29_BudgetStopAfterSteps ==
    /\ pc = "done" /\ ~GroundImpact /\ steps >= 2 /\ Len(out) = steps
    /\ s # out[Len(out)].state

\* C29: a call has stopped on a ground impact after at least one step.
C29_GroundStopAfterSteps ==
    pc = "done" /\ GroundImpact /\ steps >= 1 /\ Len(out) = steps + 1

\* ------------------------------------------------------- the drag tables
\* The segments of tb that hold v: v_min_fps <= v < v_max_fps.
Holding(tb, v) ==
    {k \in DOMAIN tb : Le(tb[k].v_min_fps, v) /\ Lt(v, tb[k].v_max_fps)}

\* tb is ordered high to low with contiguous bounds: the first upper bound
\* is infinite, each v_min_fps is the next segment's v_max_fps and lies
\* below its own v_max_fps, and the last v_min_fps is 0.
Contiguous(tb) ==
    /\ tb[1].v_max_fps = PosInf
    /\ tb[Len(tb)].v_min_fps = Zero
    /\ \A k \in DOMAIN tb : Lt(tb[k].v_min_fps, tb[k].v_max_fps)
    /\ \A k \in 1 .. (Len(tb) - 1) : tb[k].v_min_fps = tb[k + 1].v_max_fps

\* find_seg has run, from find_seg itself or from i_si.
Searched == lookup.pc = "returned" /\ ~lookup.early

C27_FallbackFromISi ==
    Searched /\ lookup.fn = "i_si" /\ ~lookup.hit.matched /\ is_finite(lookup.v)
====
